---- MODULE Spec2Model ----
(***************************************************************************)
(* A model of the Markdownizer agent service (src/agent).                  *)
(*                                                                         *)
(*   - ComparatorTool (src/agent/src/tools/comparator.py): signals,        *)
(*     trigram overlap, scoring and the decision rule.                     *)
(*   - ingest_content (src/agent/main.py): the request handler, one action *)
(*     per step of the handler.                                            *)
(*   - PreprocessorTool (src/agent/src/tools/preprocessor.py): code block  *)
(*     extraction over a document tree, and placeholder reinsertion.       *)
(*                                                                         *)
(* Numbers.  Python floats are modelled by exact fractions of Den: a score *)
(* or a signal s in [0,1] is the integer s * Den.  Den is chosen so that   *)
(* every quotient the code forms is an integer.  Values the code rounds    *)
(* to 3 decimals are reported in thousandths (0 .. 1000).                  *)
(*                                                                         *)
(* Text.  A text is a run-length encoded sequence of words: a sequence of  *)
(* segments [w |-> word, k |-> repetitions], words separated by one space. *)
(* HTML handed to the comparator is a sequence of tag tokens.  The strings *)
(* of the preprocessor are sequences of characters, its html a tree.       *)
(***************************************************************************)
EXTENDS Integers, Sequences, FiniteSets, TLC

VARIABLES
    \* ---- ComparatorTool.compare_and_decide, called directly
    cmp_r,          \* the locally-captured candidate [text, html]
    cmp_t,          \* the server-extracted candidate [text, html]
    cmp_flags,      \* the blocker_flags argument of the last call
    decision,       \* what the last call returned
    \* ---- ComparatorTool.score_candidate, called directly
    sc_signals,     \* the signals argument
    sc_penalty,     \* the blocker_penalty argument
    sc_score,       \* what the call returned (<<>> before the call)
    \* ---- ingest_content (main.py)
    pc,             \* the handler's position
    comparator_impl,\* "real", or "stub" (tests/test_routes.py monkeypatch)
    request,        \* IngestRequest
    fetch_result,   \* what fetcher.fetch_url returned
    extraction,     \* what extractor.extract_with_trafilatura returned
    blocker_flags,  \* the handler's blocker_flags dict
    comparison,     \* what comparator.compare_and_decide returned or raised
    convert_html,   \* the html handed to extractor.convert_to_markdown
    calls,          \* how often each collaborator was invoked
    response,       \* the response of the handler
    \* ---- PreprocessorTool.extract_code_blocks, called directly
    pre_html,       \* the html argument
    pre_out,        \* what the call returned: the html and the blocks
    \* ---- PreprocessorTool.reinsert_code_blocks, called directly
    rs_markdown,    \* the markdown argument
    rs_blocks,      \* the blocks argument
    rs_out,         \* what the call returned
    \* ---- a function of the tools, called directly
    fn_args,        \* the arguments of the call
    fn_result,      \* [called |-> FALSE], or [called |-> TRUE, value |-> v]
    \* PlaywrightProbeTool
    probe           \* the tool, the browsers and pages it opened, its call

cmpVars == <<cmp_r, cmp_t, cmp_flags, decision>>
scVars == <<sc_signals, sc_penalty, sc_score>>
ingestVars == <<pc, comparator_impl, request, fetch_result, extraction,
                blocker_flags, comparison, convert_html, calls, response>>
preVars == <<pre_html, pre_out>>
reinsVars == <<rs_markdown, rs_blocks, rs_out>>
fnVars == <<fn_args, fn_result>>
probeVars == <<probe>>
vars == <<cmpVars, scVars, ingestVars, preVars, reinsVars, fnVars, probeVars>>

-----------------------------------------------------------------------------
(* Bounds *)

\* the longest html token sequence of a comparator candidate
MaxHtml == 1

-----------------------------------------------------------------------------
(* Arithmetic *)

Min(a, b) == IF a < b THEN a ELSE b
Max(a, b) == IF a > b THEN a ELSE b
Abs(a) == IF a < 0 THEN -a ELSE a

RECURSIVE Gcd(_, _)
Gcd(a, b) == IF b = 0 THEN a ELSE Gcd(b, a % b)

RECURSIVE LcmUpTo(_)
LcmUpTo(n) == IF n <= 1 THEN 1
              ELSE LET l == LcmUpTo(n - 1) IN (l * n) \div Gcd(l, n)

\* the integer that stands for the float 1.0
Den == 1000000 * LcmUpTo(MaxHtml)

\* round(num/den, 3) in thousandths; a tie goes to the even neighbour
Round3(num, den) ==
    LET q == (num * 1000) \div den
        r == (num * 1000) % den
    IN  IF 2 * r > den THEN q + 1
        ELSE IF 2 * r < den THEN q
        ELSE IF q % 2 = 0 THEN q ELSE q + 1

\* round(x, 3) of a value held in units of Den, in thousandths
RoundDen3(x) ==
    LET u == Den \div 1000
        q == x \div u
        r == x % u
    IN  IF 2 * r > u THEN q + 1
        ELSE IF 2 * r < u THEN q
        ELSE IF q % 2 = 0 THEN q ELSE q + 1

RECURSIVE SumSeq(_)
SumSeq(s) == IF s = <<>> THEN 0 ELSE Head(s) + SumSeq(Tail(s))

-----------------------------------------------------------------------------
(* Texts and html samples *)

Lower(w) == CASE w = "Word" -> "word"
              [] w = "The" -> "the"
              [] OTHER -> w

\* text.split(): the words of a text, run-length encoded
WordCount(text) == SumSeq([i \in 1..Len(text) |-> text[i].k])

\* len(text): the words and one space between neighbours
TextLen(text) ==
    LET chars == SumSeq([i \in 1..Len(text) |-> text[i].k * Len(text[i].w)])
        n == WordCount(text)
    IN  IF n = 0 THEN 0 ELSE chars + (n - 1)

\* some date pattern matches inside text[:500]
HasDateInPrefix(text) ==
    LET \* the offset at which segment i starts
        SegStart(i) == SumSeq([j \in 1..(i - 1) |-> text[j].k * (Len(text[j].w) + 1)])
        DateWords == {"2024-01-15"}
    IN  \E i \in 1..Len(text) :
            /\ text[i].w \in DateWords
            /\ SegStart(i) + Len(text[i].w) <= 500

HeadingTokens == {"<h2>"}
ParagraphTokens == {"<p>"}
ListItemTokens == {"<li>"}
AbsLinkToken == "<a href=\"https://example.com/a\">"
RelLinkToken == "<a href=\"/a\">"
\* len(re.findall(pattern, html)), pattern given by the tokens it matches
CountTokens(html, S) == Cardinality({i \in 1..Len(html) : html[i] \in S})

-----------------------------------------------------------------------------
(* ComparatorTool *)

max_len == 50000

compute_signals(text, html) ==
    LET len_text == Min(TextLen(text), max_len)
        word_count == WordCount(text)
        headings == CountTokens(html, HeadingTokens)
        paragraphs == CountTokens(html, ParagraphTokens)
        lists == CountTokens(html, ListItemTokens)
        blocks == Max(headings + paragraphs + lists, 1)
        links == CountTokens(html, {AbsLinkToken, RelLinkToken})
        absolute_links == CountTokens(html, {AbsLinkToken})
    IN  [ len_text |-> len_text,
          len_norm |-> len_text * (Den \div max_len),
          word_count |-> word_count,
          \* min(word_count / blocks / 100, 1.0)
          density |-> IF word_count >= 100 * blocks THEN Den
                      ELSE word_count * (Den \div (100 * blocks)),
          structure |-> Min(headings * 2 + lists, 50),
          link_quality |-> IF links = 0 THEN 0
                           ELSE absolute_links * (Den \div Max(links, 1)),
          freshness |-> IF HasDateInPrefix(text) THEN Den ELSE 0,
          headings |-> headings,
          lists |-> lists ]

\* text.lower().split(); a run longer than 3 has the trigrams of a run of 3
RECURSIVE LowerWords(_)
LowerWords(text) ==
    IF text = <<>> THEN <<>>
    ELSE [i \in 1..Min(Head(text).k, 3) |-> Lower(Head(text).w)]
         \o LowerWords(Tail(text))

\* get_trigrams over range(len(words) - 1): pairs of words
get_trigrams_pairs(text) ==
    LET words == LowerWords(text)
    IN  {<<words[i], words[i + 1]>> : i \in 1..(Len(words) - 1)}

get_trigrams(text) ==
    LET words == LowerWords(text)
    IN  {<<words[i], words[i + 1], words[i + 2]>> : i \in 1..(Len(words) - 2)}

\* a fraction n/d in lowest terms
Frac(n, d) == LET g == Gcd(n, d) IN [n |-> n \div g, d |-> d \div g]

\* semantic_overlap dividing by the trigrams of the first text
semantic_overlap_of_first(text_a, text_b) ==
    LET trigrams_a == get_trigrams(text_a)
        trigrams_b == get_trigrams(text_b)
    IN  IF trigrams_a = {} \/ trigrams_b = {} THEN Frac(0, 1)
        ELSE Frac(Cardinality(trigrams_a \cap trigrams_b), Cardinality(trigrams_a))

semantic_overlap(text_a, text_b) ==
    LET trigrams_a == get_trigrams(text_a)
        trigrams_b == get_trigrams(text_b)
        intersection == Cardinality(trigrams_a \cap trigrams_b)
        union == Cardinality(trigrams_a \cup trigrams_b)
    IN  IF trigrams_a = {} \/ trigrams_b = {} THEN Frac(0, 1)
        ELSE IF union > 0 THEN Frac(intersection, union) ELSE Frac(0, 1)

\* score_candidate without the floor at 0
score_candidate_no_floor(signals, penalty) ==
    LET score == ( 35 * signals.len_norm
                 + 20 * signals.density
                 + 10 * (IF signals.structure >= 50 THEN Den
                         ELSE signals.structure * (Den \div 50))
                 + 10 * signals.freshness
                 + 5 * signals.link_quality ) \div 100
    IN  Min(score - penalty, Den)

score_candidate(signals, penalty) ==
    LET score == ( 35 * signals.len_norm
                 + 20 * signals.density
                 + 10 * (IF signals.structure >= 50 THEN Den
                         ELSE signals.structure * (Den \div 50))
                 + 10 * signals.freshness
                 + 5 * signals.link_quality ) \div 100
    IN  Min(Max(score - penalty, 0), Den)

\* Python truth of a dict value; values are held as strings
Truthy(v) == v \notin {"False", "None", ""}

\* any(d.values())
AnyValue(d) == \E k \in DOMAIN d : Truthy(d[k])

EmptyDict == <<>>

\* flags is <<>> for None and <<d>> for a dict d:  blocker_flags or {}
FlagsOrEmpty(flags) == IF Len(flags) = 0 THEN EmptyDict ELSE flags[1]

\* the penalty applied only when every value of the dict is true
BlockerPenaltyAll(flags) ==
    LET d == FlagsOrEmpty(flags)
    IN  IF DOMAIN d # {} /\ \A k \in DOMAIN d : Truthy(d[k])
        THEN 3 * (Den \div 10) ELSE 0

BlockerPenalty(flags) ==
    IF AnyValue(FlagsOrEmpty(flags)) THEN 3 * (Den \div 10) ELSE 0

threshold == Den \div 20

\* the decision without the tie-break
ChooseHigher(score_r, score_t) ==
    IF score_r >= score_t THEN "readability" ELSE "trafilatura"

Choose(score_r, score_t) ==
    IF Abs(score_r - score_t) < threshold THEN "readability"
    ELSE IF score_r > score_t THEN "readability" ELSE "trafilatura"

\* the locally-captured side penalised like the server-extracted side
ReadabilityPenaltyShared(flags) == BlockerPenalty(flags)

\* the blocker_penalty handed to score_candidate for the locally-captured side
ReadabilityPenalty(flags) == 0

\* the body of compare_and_decide, its parameters bound
Decide(readability_text, readability_html, trafilatura_text, trafilatura_html, flags) ==
    LET signals_r == compute_signals(readability_text, readability_html)
        signals_t == compute_signals(trafilatura_text, trafilatura_html)
        overlap == semantic_overlap(readability_text, trafilatura_text)
        penalty == BlockerPenalty(flags)
        score_r == score_candidate(signals_r, ReadabilityPenalty(flags))
        score_t == score_candidate(signals_t, penalty)
        score_diff == Abs(score_r - score_t)
    IN  [ raised |-> "",
          chosen |-> Choose(score_r, score_t),
          score_readability |-> RoundDen3(score_r),
          score_trafilatura |-> RoundDen3(score_t),
          score_diff |-> RoundDen3(score_diff),
          overlap |-> Round3(overlap.n, overlap.d),
          signals_readability |->
              [ len |-> signals_r.len_text,
                density |-> RoundDen3(signals_r.density),
                overlap |-> Round3(overlap.n, overlap.d) ],
          signals_trafilatura |->
              [ len |-> signals_t.len_text,
                density |-> RoundDen3(signals_t.density),
                overlap |-> Round3(overlap.n, overlap.d) ],
          blocker_penalty |-> penalty ]

\* a call by keyword binds iff every keyword is a parameter and every
\* parameter without a default is given
CallBinds(kw) ==
    LET \* the parameters of compare_and_decide; blocker_flags has a default
        Params == {"readability_text", "readability_html", "trafilatura_text",
                   "trafilatura_html", "title", "blocker_flags"}
        RequiredParams == Params \ {"blocker_flags"}
    IN  DOMAIN kw \subseteq Params /\ RequiredParams \subseteq DOMAIN kw

\* compare_and_decide called with the keyword arguments kw
compare_and_decide(kw) ==
    IF ~CallBinds(kw) THEN [raised |-> "TypeError"]
    ELSE Decide(kw.readability_text, kw.readability_html,
                kw.trafilatura_text, kw.trafilatura_html,
                IF "blocker_flags" \in DOMAIN kw THEN kw.blocker_flags ELSE <<>>)

-----------------------------------------------------------------------------
(* Inputs of the comparator *)

Seg(w, k) == [w |-> w, k |-> k]

RECURSIVE SeqsUpTo(_, _)
SeqsUpTo(S, n) ==
    IF n = 0 THEN {<<>>}
    ELSE LET shorter == SeqsUpTo(S, n - 1)
         IN  shorter \cup {Append(s, x) : s \in shorter, x \in S}

FlagNames == {"login_required", "paywall", "captcha", "cross_origin_iframe",
              "content_too_thin", "csp_blocked"}

\* the dict detect_blockers returns: the six flags and "error"
ProbeDict(trueFlags, err) ==
    [k \in FlagNames \cup {"error"} |->
        IF k = "error" THEN err
        ELSE IF k \in trueFlags THEN "True" ELSE "False"]

NoDecision == [raised |-> "not called"]

-----------------------------------------------------------------------------
(* Strings of the preprocessor.  A string is a sequence of characters,     *)
(* each character a one-character string; ZWSP is the character U+200B    *)
(* and BACKTICK the backtick.                                              *)

ZWSP == "ZWSP"

\* the characters str.isspace() and str.strip() treat as whitespace
Whitespace == {" ", "\n", "\t"}

DigitChars == <<"0", "1", "2", "3", "4", "5", "6", "7", "8", "9">>

\* \d
DigitSet == {DigitChars[i] : i \in 1..10}

\* str(n) for n >= 0
RECURSIVE IntToStr(_)
IntToStr(n) ==
    IF n < 10 THEN <<DigitChars[n + 1]>>
    ELSE IntToStr(n \div 10) \o <<DigitChars[(n % 10) + 1]>>

\* s.lstrip(chars)
RECURSIVE lstrip(_, _)
lstrip(s, chars) ==
    IF s # <<>> /\ Head(s) \in chars THEN lstrip(Tail(s), chars) ELSE s

\* s.rstrip(chars)
RECURSIVE rstrip(_, _)
rstrip(s, chars) ==
    IF s # <<>> /\ s[Len(s)] \in chars
    THEN rstrip(SubSeq(s, 1, Len(s) - 1), chars)
    ELSE s

\* s.strip()
strip(s) == rstrip(lstrip(s, Whitespace), Whitespace)

\* s[i:].startswith(sub), i counted from 1
StartsAt(s, i, sub) ==
    /\ i + Len(sub) - 1 <= Len(s)
    /\ \A k \in 1..Len(sub) : s[i + k - 1] = sub[k]

\* sub in s
Contains(s, sub) == \E i \in 1..(Len(s) - Len(sub) + 1) : StartsAt(s, i, sub)

\* s.find(sub, i): the first position from i on where sub starts, counted
\* from 1; 0 when there is none
find_from(s, i, sub) ==
    LET at == { j \in i..(Len(s) - Len(sub) + 1) : StartsAt(s, j, sub) }
    IN  IF at = {} THEN 0 ELSE CHOOSE j \in at : \A k \in at : j <= k

\* s.replace(old, new): the occurrences of old, found left to right without
\* overlap, are replaced by new
RECURSIVE replace(_, _, _)
replace(s, old, new) ==
    IF find_from(s, 1, old) = 0 THEN s
    ELSE SubSeq(s, 1, find_from(s, 1, old) - 1) \o new
             \o replace(SubSeq(s, find_from(s, 1, old) + Len(old), Len(s)), old, new)

\* s.split(c) for a one-character separator c
RECURSIVE split(_, _)
split(s, c) ==
    IF find_from(s, 1, <<c>>) = 0 THEN <<s>>
    ELSE <<SubSeq(s, 1, find_from(s, 1, <<c>>) - 1)>>
             \o split(SubSeq(s, find_from(s, 1, <<c>>) + 1, Len(s)), c)

\* sep.join(parts)
RECURSIVE join(_, _)
join(sep, parts) ==
    IF parts = <<>> THEN <<>>
    ELSE IF Len(parts) = 1 THEN parts[1]
    ELSE parts[1] \o sep \o join(sep, Tail(parts))

\* ''.join(parts)
RECURSIVE Concat(_)
Concat(parts) == IF parts = <<>> THEN <<>> ELSE Head(parts) \o Concat(Tail(parts))

\* the length of the run of characters of S that starts at s[i]
RECURSIVE RunLen(_, _, _)
RunLen(s, i, S) ==
    IF i <= Len(s) /\ s[i] \in S THEN 1 + RunLen(s, i + 1, S) ELSE 0

\* runs of three or more newlines become two newlines
RECURSIVE CollapseNewlines(_, _)
CollapseNewlines(s, i) ==
    IF i > Len(s) THEN <<>>
    ELSE LET n == RunLen(s, i, {"\n"})
         IN  IF n >= 3 THEN <<"\n", "\n">> \o CollapseNewlines(s, i + n)
             ELSE IF n > 0 THEN SubSeq(s, i, i + n - 1) \o CollapseNewlines(s, i + n)
             ELSE <<s[i]>> \o CollapseNewlines(s, i + 1)

-----------------------------------------------------------------------------
(* CodeBlock (preprocessor.py)                                             *)
(* A block is [content, language, is_terminal, line_numbers, metadata,     *)
(* placeholder]; content, language and placeholder are strings.            *)

\* the backtick character
BACKTICK == "BACKTICK"

fence == <<BACKTICK, BACKTICK, BACKTICK>>

\* the string literals of the preprocessor
Str ==
    [ text |-> <<"t", "e", "x", "t">>,
      bash |-> <<"b", "a", "s", "h">>,
      python |-> <<"p", "y", "t", "h", "o", "n">>,
      javascript |-> <<"j", "a", "v", "a", "s", "c", "r", "i", "p", "t">>,
      typescript |-> <<"t", "y", "p", "e", "s", "c", "r", "i", "p", "t">>,
      yaml |-> <<"y", "a", "m", "l">>,
      json |-> <<"j", "s", "o", "n">>,
      yml |-> <<"y", "m", "l">>,
      hljs |-> <<"h", "l", "j", "s">>,
      prism |-> <<"p", "r", "i", "s", "m">>,
      code |-> <<"c", "o", "d", "e">>,
      block |-> <<"b", "l", "o", "c", "k">> ]

\* _strip_line_numbers with the pattern ^(\d)(.*)$: one digit is removed
_strip_line_numbers_one_digit(content) ==
    LET lines == split(content, "\n")
    IN  join(<<"\n">>,
             [i \in 1..Len(lines) |->
                 IF lines[i] # <<>> /\ lines[i][1] \in DigitSet
                 THEN Tail(lines[i]) ELSE lines[i]])

\* CodeBlock._strip_line_numbers: on every line a leading run of digits is
\* removed, the rest of the line is kept
_strip_line_numbers(content) ==
    LET lines == split(content, "\n")
    IN  join(<<"\n">>,
             [i \in 1..Len(lines) |->
                 SubSeq(lines[i], RunLen(lines[i], 1, DigitSet) + 1, Len(lines[i]))])

\* CodeBlock.to_markdown
to_markdown(block) ==
    LET lang == IF block.language # Str.text THEN block.language ELSE <<>>
        content == IF block.line_numbers
                   THEN _strip_line_numbers(block.content)
                   ELSE block.content
        lines == SelectSeq(split(strip(content), "\n"),
                           LAMBDA line : strip(line) # <<>>)
        formatted == join(<<"\n">>,
                          [i \in 1..Len(lines) |->
                              <<"$", " ">> \o strip(lstrip(lines[i], {"$"}))])
    IN  IF block.is_terminal
        THEN fence \o Str.bash \o <<"\n">> \o formatted \o <<"\n">> \o fence
        ELSE fence \o lang \o <<"\n">> \o strip(content) \o <<"\n">> \o fence

-----------------------------------------------------------------------------
(* The document tree (BeautifulSoup, html.parser).                         *)
(* An html input is a sequence of terms [tag, cls, attrs, text, kids]: an  *)
(* element with its class list, its other attributes and its children, or  *)
(* a text node (tag "#text").  A parsed tree is a sequence of nodes, a     *)
(* node being a term whose kids are node numbers, with the number of its   *)
(* parent (0 is None).  Node 1 is the BeautifulSoup object.  An element    *)
(* that was replaced stays in the sequence, detached from its parent.      *)

Elem(tag, cls, kids) == [tag |-> tag, cls |-> cls, attrs |-> <<>>, text |-> <<>>, kids |-> kids]

TextNode(s) == [tag |-> "#text", cls |-> <<>>, attrs |-> <<>>, text |-> s, kids |-> <<>>]

RECURSIVE AddTerm(_, _, _)
RECURSIVE AddTerms(_, _, _)

AddTerms(tree, parent, terms) ==
    IF terms = <<>> THEN tree
    ELSE AddTerms(AddTerm(tree, parent, Head(terms)), parent, Tail(terms))

AddTerm(tree, parent, term) ==
    LET id == Len(tree) + 1
        node == [tag |-> term.tag, cls |-> term.cls, attrs |-> term.attrs,
                 text |-> term.text, kids |-> <<>>, parent |-> parent]
    IN  AddTerms([Append(tree, node) EXCEPT ![parent].kids = Append(@, id)],
                 id, term.kids)

\* BeautifulSoup(html, 'html.parser')
BeautifulSoup(html) ==
    AddTerms(<<[tag |-> "[document]", cls |-> <<>>, attrs |-> <<>>,
                text |-> <<>>, kids |-> <<>>, parent |-> 0]>>,
             1, html)

\* element.descendants: document order
RECURSIVE descendants(_, _)
descendants(tree, n) ==
    Concat([i \in 1..Len(tree[n].kids) |->
               <<tree[n].kids[i]>> \o descendants(tree, tree[n].kids[i])])

\* element.find_all(tag)
find_all(tree, n, tag) ==
    SelectSeq(descendants(tree, n), LAMBDA d : tree[d].tag = tag)

\* element.find(tag): the first one, or 0 for None
find(tree, n, tag) ==
    LET found == find_all(tree, n, tag)
    IN  IF found = <<>> THEN 0 ELSE found[1]

\* element.find_parent(tag): the nearest ancestor, or 0 for None
RECURSIVE find_parent(_, _, _)
find_parent(tree, n, tag) ==
    LET p == tree[n].parent
    IN  IF p = 0 THEN 0
        ELSE IF tree[p].tag = tag THEN p
        ELSE find_parent(tree, p, tag)

\* element.replace_with(soup.new_string(s)): the new text node takes the
\* element's place among its parent's children, the element is detached
replace_with(tree, n, s) ==
    LET p == tree[n].parent
        new == Len(tree) + 1
        node == [tag |-> "#text", cls |-> <<>>, attrs |-> <<>>,
                 text |-> s, kids |-> <<>>, parent |-> p]
    IN  [Append(tree, node) EXCEPT
            ![p].kids = [i \in 1..Len(@) |-> IF @[i] = n THEN new ELSE @[i]],
            ![n].parent = 0]

\* PreprocessorTool._extract_text_content
_extract_text_content(tree, element) ==
    LET ds == descendants(tree, element)
        isspace(s) == s # <<>> /\ \A i \in 1..Len(s) : s[i] \in Whitespace
        part(d) ==
            IF tree[d].tag # "#text" THEN <<>>
            ELSE IF tree[d].text # <<>> /\ ~isspace(tree[d].text)
                 THEN tree[d].text
            ELSE IF Contains(tree[d].text, <<"\n">>) THEN <<"\n">>
            ELSE <<>>
        full_text == Concat([i \in 1..Len(ds) |-> part(ds[i])])
    IN  CollapseNewlines(SelectSeq(full_text, LAMBDA c : c # ZWSP), 1)

-----------------------------------------------------------------------------
(* Regular expressions of the preprocessor.  A pattern is a sequence of    *)
(* items: a character set taken once, once or more, or any number of       *)
(* times; a word boundary; a line start; a line end.                       *)

\* the letters, lower case and upper case
Letters ==
    [ lower |-> <<"a", "b", "c", "d", "e", "f", "g", "h", "i", "j", "k", "l", "m",
                  "n", "o", "p", "q", "r", "s", "t", "u", "v", "w", "x", "y", "z">>,
      upper |-> <<"A", "B", "C", "D", "E", "F", "G", "H", "I", "J", "K", "L", "M",
                  "N", "O", "P", "Q", "R", "S", "T", "U", "V", "W", "X", "Y", "Z">> ]

\* \w
WordChars ==
    {Letters.lower[i] : i \in 1..26} \cup {Letters.upper[i] : i \in 1..26}
        \cup DigitSet \cup {"_"}

\* s.lower()
str_lower(s) ==
    [i \in 1..Len(s) |->
        IF \E k \in 1..26 : Letters.upper[k] = s[i]
        THEN Letters.lower[CHOOSE k \in 1..26 : Letters.upper[k] = s[i]]
        ELSE s[i]]

\* a character of S taken once ("1"), once or more ("+"), any number of
\* times ("*"), or at most once ("?")
Class(S, q) == <<[kind |-> "set", set |-> S, min |-> IF q \in {"*", "?"} THEN 0 ELSE 1, many |-> q \in {"+", "*"}]>>

\* literal text
Lit(s) == [i \in 1..Len(s) |-> [kind |-> "set", set |-> {s[i]}, min |-> 1, many |-> FALSE]]

\* a word boundary ("b"), a line start ("bol") or a line end ("eol")
Anchor(kind) == <<[kind |-> kind, set |-> {}, min |-> 0, many |-> FALSE]>>

\* the items re[k..] match s from position p on
RECURSIVE MatchAt(_, _, _, _)
MatchAt(re, k, s, p) ==
    IF k > Len(re) THEN TRUE
    ELSE IF re[k].kind = "b"
         THEN /\ (p > 1 /\ s[p - 1] \in WordChars) # (p <= Len(s) /\ s[p] \in WordChars)
              /\ MatchAt(re, k + 1, s, p)
    ELSE IF re[k].kind = "bol"
         THEN (p = 1 \/ s[p - 1] = "\n") /\ MatchAt(re, k + 1, s, p)
    ELSE IF re[k].kind = "eol"
         THEN (p = Len(s) + 1 \/ s[p] = "\n") /\ MatchAt(re, k + 1, s, p)
    ELSE LET run == RunLen(s, p, re[k].set)
             hi == IF re[k].many THEN run ELSE Min(run, 1)
         IN  \E n \in re[k].min..hi : MatchAt(re, k + 1, s, p + n)

\* re.search(pattern, s, re.MULTILINE) is not None
re_search(re, s) == \E p \in 1..(Len(s) + 1) : MatchAt(re, 1, s, p)


\* PreprocessorTool.LANGUAGE_PATTERNS, in the order of the dict; the
\* alternation of the third typescript pattern is written as three patterns
LANGUAGE_PATTERNS == <<
    [ lang |-> Str.python, patterns |-> <<
          Concat(<<Anchor("b"), Lit(<<"i", "m", "p", "o", "r", "t">>), Class(Whitespace, "+"), Class(WordChars, "+")>>),
          Concat(<<Anchor("b"), Lit(<<"f", "r", "o", "m">>), Class(Whitespace, "+"), Class(WordChars, "+"), Class(Whitespace, "+"), Lit(<<"i", "m", "p", "o", "r", "t">>)>>),
          Concat(<<Anchor("b"), Lit(<<"d", "e", "f">>), Class(Whitespace, "+"), Class(WordChars, "+"), Class(Whitespace, "*"), Lit(<<"(">>)>>),
          Concat(<<Anchor("b"), Lit(<<"c", "l", "a", "s", "s">>), Class(Whitespace, "+"), Class(WordChars, "+")>>),
          Concat(<<Lit(<<"p", "r", "i", "n", "t">>), Class(Whitespace, "*"), Lit(<<"(">>)>>) >> ],
    [ lang |-> Str.javascript, patterns |-> <<
          Concat(<<Anchor("b"), Lit(<<"c", "o", "n", "s", "t">>), Class(Whitespace, "+"), Class(WordChars, "+")>>),
          Concat(<<Anchor("b"), Lit(<<"l", "e", "t">>), Class(Whitespace, "+"), Class(WordChars, "+")>>),
          Concat(<<Anchor("b"), Lit(<<"v", "a", "r">>), Class(Whitespace, "+"), Class(WordChars, "+")>>),
          Concat(<<Anchor("b"), Lit(<<"f", "u", "n", "c", "t", "i", "o", "n">>), Class(Whitespace, "+"), Class(WordChars, "+"), Class(Whitespace, "*"), Lit(<<"(">>)>>),
          Concat(<<Lit(<<"=", ">">>)>>),
          Concat(<<Lit(<<"c", "o", "n", "s", "o", "l", "e", ".", "l", "o", "g">>)>>) >> ],
    [ lang |-> Str.typescript, patterns |-> <<
          Concat(<<Anchor("b"), Lit(<<"i", "n", "t", "e", "r", "f", "a", "c", "e">>), Class(Whitespace, "+"), Class(WordChars, "+")>>),
          Concat(<<Anchor("b"), Lit(<<"t", "y", "p", "e">>), Class(Whitespace, "+"), Class(WordChars, "+"), Class(Whitespace, "*"), Lit(<<"=">>)>>),
          Concat(<<Lit(<<":">>), Class(Whitespace, "*"), Lit(<<"s", "t", "r", "i", "n", "g">>)>>),
          Concat(<<Lit(<<":">>), Class(Whitespace, "*"), Lit(<<"n", "u", "m", "b", "e", "r">>)>>),
          Concat(<<Lit(<<":">>), Class(Whitespace, "*"), Lit(<<"b", "o", "o", "l", "e", "a", "n">>)>>) >> ],
    [ lang |-> Str.bash, patterns |-> <<
          Concat(<<Anchor("bol"), Lit(<<"$">>), Class(Whitespace, "1")>>),
          Concat(<<Anchor("bol"), Lit(<<"#">>), Class(Whitespace, "1")>>),
          Concat(<<Anchor("b"), Lit(<<"s", "u", "d", "o">>), Class(Whitespace, "1")>>),
          Concat(<<Anchor("b"), Lit(<<"a", "p", "t", "-", "g", "e", "t">>), Class(Whitespace, "1")>>),
          Concat(<<Anchor("b"), Lit(<<"g", "i", "t">>), Class(Whitespace, "1")>>),
          Concat(<<Anchor("b"), Lit(<<"n", "p", "m">>), Class(Whitespace, "1")>>),
          Concat(<<Anchor("b"), Lit(<<"p", "i", "p">>), Class(Whitespace, "1")>>) >> ],
    [ lang |-> Str.json, patterns |-> <<
          Concat(<<Anchor("bol"), Class(Whitespace, "*"), Class({"{", "["}, "1")>>),
          Concat(<<Lit(<<":">>), Class(Whitespace, "*"), Class({"{", "[", "\"", "'"} \cup DigitSet, "1")>>) >> ],
    [ lang |-> Str.yaml, patterns |-> <<
          Concat(<<Anchor("bol"), Class(WordChars, "+"), Lit(<<":">>), Class(Whitespace, "*"), Anchor("eol")>>),
          Concat(<<Anchor("bol"), Class(Whitespace, "+"), Lit(<<"-">>), Class(Whitespace, "+"), Class(WordChars, "+")>>) >> ] >>

-----------------------------------------------------------------------------
(* PreprocessorTool (preprocessor.py): detection                           *)

\* PreprocessorTool.FRAMEWORK_PATTERNS, flattened in the order of the dict.
\* kind "class" is a class selector, "class*" a substring test on the class
\* attribute, "attr" the presence of an attribute; tag is the type
\* selector, "" when there is none.
FRAMEWORK_PATTERNS == <<
    [ framework |-> "docusaurus", selector |-> ".theme-code-block",
      kind |-> "class", tag |-> "", attr |-> "",
      arg |-> <<"t", "h", "e", "m", "e", "-", "c", "o", "d", "e", "-", "b", "l", "o", "c", "k">> ],
    [ framework |-> "docusaurus", selector |-> "[class*=\"codeBlock\"]",
      kind |-> "class*", tag |-> "", attr |-> "",
      arg |-> <<"c", "o", "d", "e", "B", "l", "o", "c", "k">> ],
    [ framework |-> "docusaurus", selector |-> ".prism-code",
      kind |-> "class", tag |-> "", attr |-> "",
      arg |-> <<"p", "r", "i", "s", "m", "-", "c", "o", "d", "e">> ],
    [ framework |-> "mintlify", selector |-> "[class*=\"CodeBlock\"]",
      kind |-> "class*", tag |-> "", attr |-> "",
      arg |-> <<"C", "o", "d", "e", "B", "l", "o", "c", "k">> ],
    [ framework |-> "mintlify", selector |-> "[class*=\"CodeGroup\"]",
      kind |-> "class*", tag |-> "", attr |-> "",
      arg |-> <<"C", "o", "d", "e", "G", "r", "o", "u", "p">> ],
    [ framework |-> "gitbook", selector |-> ".code-block",
      kind |-> "class", tag |-> "", attr |-> "",
      arg |-> <<"c", "o", "d", "e", "-", "b", "l", "o", "c", "k">> ],
    [ framework |-> "gitbook", selector |-> "[data-gb-custom-block]",
      kind |-> "attr", tag |-> "", arg |-> <<>>, attr |-> "data-gb-custom-block" ],
    [ framework |-> "nextra", selector |-> "[class*=\"nextra-code\"]",
      kind |-> "class*", tag |-> "", attr |-> "",
      arg |-> <<"n", "e", "x", "t", "r", "a", "-", "c", "o", "d", "e">> ],
    [ framework |-> "nextra", selector |-> ".nx-code-block",
      kind |-> "class", tag |-> "", attr |-> "",
      arg |-> <<"n", "x", "-", "c", "o", "d", "e", "-", "b", "l", "o", "c", "k">> ],
    [ framework |-> "vuepress", selector |-> ".vuepress-code-block",
      kind |-> "class", tag |-> "", attr |-> "",
      arg |-> <<"v", "u", "e", "p", "r", "e", "s", "s", "-", "c", "o", "d", "e", "-", "b", "l", "o", "c", "k">> ],
    [ framework |-> "vuepress", selector |-> "div[class*=\"language-\"]",
      kind |-> "class*", tag |-> "div", attr |-> "",
      arg |-> <<"l", "a", "n", "g", "u", "a", "g", "e", "-">> ],
    [ framework |-> "highlightjs", selector |-> ".hljs",
      kind |-> "class", tag |-> "", attr |-> "",
      arg |-> <<"h", "l", "j", "s">> ],
    [ framework |-> "highlightjs", selector |-> "[class*=\"hljs-\"]",
      kind |-> "class*", tag |-> "", attr |-> "",
      arg |-> <<"h", "l", "j", "s", "-">> ],
    [ framework |-> "prism", selector |-> "[class*=\"prism\"]",
      kind |-> "class*", tag |-> "", attr |-> "",
      arg |-> <<"p", "r", "i", "s", "m">> ],
    [ framework |-> "prism", selector |-> "[class*=\"language-\"]",
      kind |-> "class*", tag |-> "", attr |-> "",
      arg |-> <<"l", "a", "n", "g", "u", "a", "g", "e", "-">> ] >>

\* the element matches the selector
SelectorMatches(node, sel) ==
    /\ node.tag \notin {"#text", "[document]"}
    /\ sel.tag = "" \/ node.tag = sel.tag
    /\ IF sel.kind = "class"
       THEN \E i \in 1..Len(node.cls) : node.cls[i] = sel.arg
       ELSE IF sel.kind = "class*"
       THEN node.cls # <<>> /\ Contains(join(<<" ">>, node.cls), sel.arg)
       ELSE sel.attr \in DOMAIN node.attrs

\* soup.select(selector): the attached elements that match, in document order
select(tree, sel) ==
    SelectSeq(descendants(tree, 1), LAMBDA d : SelectorMatches(tree[d], sel))

\* re.search of the class pattern in a class name: one of the prefixes
\* language-, lang-, hljs-, prism- may come first, then a run of word
\* characters, which is the group.  The group of the leftmost match,
\* lower-cased; <<>> when the pattern matches nowhere.
ClassGroup(cls) ==
    LET prefixes == << <<"l", "a", "n", "g", "u", "a", "g", "e", "-">>,
                       <<"l", "a", "n", "g", "-">>,
                       <<"h", "l", "j", "s", "-">>,
                       <<"p", "r", "i", "s", "m", "-">> >>
        start(p) ==
            LET withPrefix == { i \in 1..Len(prefixes) :
                                  /\ StartsAt(cls, p, prefixes[i])
                                  /\ RunLen(cls, p + Len(prefixes[i]), WordChars) > 0 }
            IN  IF withPrefix # {}
                THEN p + Len(prefixes[CHOOSE i \in withPrefix : TRUE])
                ELSE p
        ps == { p \in 1..Len(cls) : RunLen(cls, start(p), WordChars) > 0 }
        first == CHOOSE p \in ps : \A r \in ps : p <= r
    IN  IF ps = {} THEN <<>>
        ELSE str_lower(SubSeq(cls, start(first),
                              start(first) + RunLen(cls, start(first), WordChars) - 1))

\* the alias table of _detect_language_from_tag; <<>> when the class is
\* passed over.  The code tests lang in ('yml'), a substring test.
LangOfClass(lang) ==
    IF lang = <<>> THEN <<>>
    ELSE IF lang \in {<<"j", "s">>, Str.javascript, <<"j", "s", "x">>} THEN Str.javascript
    ELSE IF lang \in {<<"t", "s">>, Str.typescript, <<"t", "s", "x">>} THEN Str.typescript
    ELSE IF lang \in {<<"p", "y">>, <<"p", "y", "t", "h", "o", "n", "3">>} THEN Str.python
    ELSE IF lang \in {<<"s", "h">>, Str.bash, <<"s", "h", "e", "l", "l">>, <<"z", "s", "h">>} THEN Str.bash
    ELSE IF Contains(Str.yml, lang) THEN Str.yaml
    ELSE IF lang \notin {Str.hljs, Str.prism, Str.code, Str.block} THEN lang
    ELSE <<>>

RECURSIVE LangFromClasses(_, _)
LangFromClasses(classes, i) ==
    IF i > Len(classes) THEN <<>>
    ELSE IF LangOfClass(ClassGroup(classes[i])) # <<>>
         THEN LangOfClass(ClassGroup(classes[i]))
         ELSE LangFromClasses(classes, i + 1)

\* PreprocessorTool._detect_language_from_content
_detect_language_from_content(content) ==
    LET hits == { i \in 1..Len(LANGUAGE_PATTERNS) :
                    \E j \in 1..Len(LANGUAGE_PATTERNS[i].patterns) :
                        re_search(LANGUAGE_PATTERNS[i].patterns[j], content) }
    IN  IF hits = {} THEN Str.text
        ELSE LANGUAGE_PATTERNS[CHOOSE i \in hits : \A k \in hits : i <= k].lang

\* PreprocessorTool._detect_language_from_tag; data_lang is
\* element.get('data-language') or element.get('data-lang')
_detect_language_from_tag(tree, element) ==
    LET attrs == tree[element].attrs
        data_lang ==
            IF "data-language" \in DOMAIN attrs /\ attrs["data-language"] # <<>>
            THEN attrs["data-language"]
            ELSE IF "data-lang" \in DOMAIN attrs THEN attrs["data-lang"]
            ELSE <<>>
    IN  IF LangFromClasses(tree[element].cls, 1) # <<>>
        THEN LangFromClasses(tree[element].cls, 1)
        ELSE IF data_lang # <<>> THEN str_lower(data_lang)
        ELSE _detect_language_from_content(_extract_text_content(tree, element))

\* PreprocessorTool._is_terminal_block(*elements): an element with one of
\* the terms in a class, or with a prompt on more than half of its lines
_is_terminal_block(tree, elements) ==
    LET terms == { <<"t", "e", "r", "m", "i", "n", "a", "l">>,
                   <<"c", "o", "m", "m", "a", "n", "d">>,
                   <<"c", "o", "n", "s", "o", "l", "e">>,
                   <<"s", "h", "e", "l", "l">> }
        lines(e) == split(strip(_extract_text_content(tree, e)), "\n")
        prompt_lines(e) ==
            Len(SelectSeq(lines(e), LAMBDA line : /\ strip(line) # <<>>
                                                  /\ strip(line)[1] \in {"$", "#"}))
    IN  \E i \in 1..Len(elements) :
            \/ \E k \in 1..Len(tree[elements[i]].cls) : \E term \in terms :
                   Contains(str_lower(tree[elements[i]].cls[k]), term)
            \/ 2 * prompt_lines(elements[i]) > Len(lines(elements[i]))

\* PreprocessorTool._has_line_numbers
_has_line_numbers(content) ==
    LET lines == SelectSeq(split(content, "\n"), LAMBDA line : strip(line) # <<>>)
        lines_with_numbers == Len(SelectSeq(lines, LAMBDA line : line[1] \in DigitSet))
    IN  lines # <<>> /\ 10 * lines_with_numbers >= 7 * Len(lines)

-----------------------------------------------------------------------------
(* PreprocessorTool (preprocessor.py): extraction and reinsertion          *)

_placeholder_prefix == <<"P", "L", "A", "C", "E", "H", "O", "L", "D", "E", "R", "_">>
_placeholder_suffix == <<>>

\* f"{self._placeholder_prefix}{i}{self._placeholder_suffix}"
PlaceholderToken(i) == _placeholder_prefix \o IntToStr(i) \o _placeholder_suffix

\* CodeBlock(...): the placeholder field defaults to ""; metadata keys a
\* block does not have are ""
CodeBlock(content, language, is_terminal, line_numbers, metadata) ==
    [ content |-> content, language |-> language, is_terminal |-> is_terminal,
      line_numbers |-> line_numbers, metadata |-> metadata, placeholder |-> <<>> ]

SemanticMeta(tag) ==
    [source |-> "semantic_html", tag |-> tag, framework |-> "", selector |-> ""]

FrameworkMeta(sel) ==
    [source |-> "framework", tag |-> "", framework |-> sel.framework, selector |-> sel.selector]

\* The state of a pass is [soup, blocks, raised]: the tree, the block list
\* of the pass, and whether an exception is on its way out of the loop.

\* One statement after another: what follows runs on the value v that the
\* statements before it left.
Then(v, F(_)) == CHOOSE r \in { F(x) : x \in {v} } : TRUE

\* blocks.append(block); element.replace_with(PLACEHOLDER_<len(blocks)-1>).
\* replace_with raises ValueError for an element that has no parent.
Record(st, element, block) ==
    IF st.soup[element].parent = 0
    THEN [ soup |-> st.soup, blocks |-> Append(st.blocks, block), raised |-> TRUE ]
    ELSE [ soup |-> replace_with(st.soup, element, PlaceholderToken(Len(st.blocks))),
           blocks |-> Append(st.blocks, block),
           raised |-> FALSE ]

\* the loop over soup.find_all('pre')
RECURSIVE PreLoop(_, _)
PreLoop(st, pre_tags) ==
    LET pre_tag == Head(pre_tags)
        code_tag == find(st.soup, pre_tag, "code")
        content == _extract_text_content(st.soup,
                       IF code_tag # 0 THEN code_tag ELSE pre_tag)
        step ==
            IF strip(content) = <<>> THEN st
            ELSE IF code_tag # 0
            THEN Record(st, pre_tag,
                     CodeBlock(content,
                               _detect_language_from_tag(st.soup, code_tag),
                               _is_terminal_block(st.soup, <<pre_tag, code_tag>>),
                               _has_line_numbers(content),
                               SemanticMeta("pre>code")))
            ELSE Record(st, pre_tag,
                     CodeBlock(content, Str.text, FALSE, FALSE, SemanticMeta("pre")))
    IN  IF st.raised \/ pre_tags = <<>> THEN st
        ELSE Then(step, LAMBDA s : PreLoop(s, Tail(pre_tags)))

\* the loop over soup.find_all('code')
RECURSIVE CodeLoop(_, _)
CodeLoop(st, code_tags) ==
    LET code_tag == Head(code_tags)
        content == _extract_text_content(st.soup, code_tag)
        step ==
            IF find_parent(st.soup, code_tag, "pre") # 0 THEN st
            ELSE IF Contains(content, <<"\n">>) \/ Len(content) > 60
            THEN Record(st, code_tag,
                     CodeBlock(content,
                               _detect_language_from_tag(st.soup, code_tag),
                               FALSE,
                               _has_line_numbers(content),
                               SemanticMeta("code")))
            ELSE st
    IN  IF st.raised \/ code_tags = <<>> THEN st
        ELSE Then(step, LAMBDA s : CodeLoop(s, Tail(code_tags)))

\* PreprocessorTool._extract_semantic_html: the list of each loop is taken
\* before the loop runs, the tree changes while it runs
_extract_semantic_html(soup) ==
    Then(PreLoop([soup |-> soup, blocks |-> <<>>, raised |-> FALSE], find_all(soup, 1, "pre")),
         LAMBDA afterPre : CodeLoop(afterPre, find_all(afterPre.soup, 1, "code")))

\* the duplicate test of _extract_framework_blocks: a pre below the element,
\* or the placeholder prefix in a text node that is a child of the element
AlreadyProcessed(tree, element) ==
    \/ find(tree, element, "pre") # 0
    \/ \E i \in 1..Len(tree[element].kids) :
           /\ tree[tree[element].kids[i]].tag = "#text"
           /\ Contains(tree[tree[element].kids[i]].text, <<"P", "L", "A", "C", "E", "H", "O", "L", "D", "E", "R", "_">>)

\* the loop over soup.select(selector)
RECURSIVE ElementLoop(_, _, _)
ElementLoop(st, sel, elements) ==
    LET element == Head(elements)
        content == _extract_text_content(st.soup, element)
        step ==
            IF AlreadyProcessed(st.soup, element) THEN st
            ELSE IF strip(content) # <<>> /\ Len(content) > 10
            THEN Record(st, element,
                     CodeBlock(content,
                               _detect_language_from_tag(st.soup, element),
                               _is_terminal_block(st.soup, <<element>>),
                               _has_line_numbers(content),
                               FrameworkMeta(sel)))
            ELSE st
    IN  IF st.raised \/ elements = <<>> THEN st
        ELSE Then(step, LAMBDA s : ElementLoop(s, sel, Tail(elements)))

\* the loop over the selectors: an exception raised under a selector is
\* caught, and the loop continues with the next selector
RECURSIVE SelectorLoop(_, _)
SelectorLoop(st, i) ==
    IF st.raised THEN SelectorLoop([st EXCEPT !.raised = FALSE], i)
    ELSE IF i > Len(FRAMEWORK_PATTERNS) THEN st
    ELSE Then(ElementLoop(st, FRAMEWORK_PATTERNS[i],
                          select(st.soup, FRAMEWORK_PATTERNS[i])),
              LAMBDA s : SelectorLoop(s, i + 1))

\* PreprocessorTool._extract_framework_blocks: its block list starts empty
_extract_framework_blocks(soup) ==
    Then([soup |-> soup, blocks |-> <<>>, raised |-> FALSE], LAMBDA st : SelectorLoop(st, 1))

\* PreprocessorTool.extract_code_blocks: the returned html is the tree; an
\* exception of the semantic pass leaves the function
extract_code_blocks(html) ==
    LET result(semantic, framework) ==
            LET blocks == semantic.blocks \o framework.blocks
            IN  [ raised |-> FALSE,
                  html |-> framework.soup,
                  blocks |-> [i \in 1..Len(blocks) |->
                      [blocks[i] EXCEPT !.placeholder = PlaceholderToken(i - 1)]] ]
    IN  Then(BeautifulSoup(html), LAMBDA soup :
        Then(_extract_semantic_html(soup), LAMBDA semantic :
            IF semantic.raised
            THEN [ raised |-> TRUE, html |-> <<>>, blocks |-> <<>> ]
            ELSE Then(_extract_framework_blocks(semantic.soup), LAMBDA framework :
                     result(semantic, framework))))

\* PreprocessorTool.reinsert_code_blocks, from block i on (i counted from 0)
RECURSIVE ReinsertFrom(_, _, _)
ReinsertFrom(result, blocks, i) ==
    IF i >= Len(blocks) THEN result
    ELSE IF Contains(result, PlaceholderToken(i))
    THEN ReinsertFrom(replace(result, PlaceholderToken(i), to_markdown(blocks[i + 1])),
                      blocks, i + 1)
    ELSE ReinsertFrom(result, blocks, i + 1)

reinsert_code_blocks(markdown, blocks) == ReinsertFrom(markdown, blocks, 0)

\* inject_code_into_html that puts the new elements before the content
inject_code_into_html_prepended(trafilatura_html, blocks) ==
    LET pre(block) ==
            Elem("pre", <<>>,
                 <<Elem("code",
                        IF block.language # <<>> /\ block.language # Str.text
                        THEN <<<<"l", "a", "n", "g", "u", "a", "g", "e", "-">> \o block.language>>
                        ELSE <<>>,
                        <<TextNode(IF block.line_numbers
                                   THEN _strip_line_numbers(block.content)
                                   ELSE block.content)>>)>>)
    IN  IF blocks = <<>> \/ trafilatura_html = <<>> THEN trafilatura_html
        ELSE [i \in 1..Len(blocks) |-> pre(blocks[i])] \o trafilatura_html

\* PreprocessorTool.inject_code_into_html.  The html is a sequence of terms;
\* str(soup) is the tree written back as terms.
inject_code_into_html(trafilatura_html, blocks) ==
    LET soup == BeautifulSoup(trafilatura_html)
        body == IF find(soup, 1, "body") # 0 THEN find(soup, 1, "body") ELSE 1
        pre(block) ==
            Elem("pre", <<>>,
                 <<Elem("code",
                        IF block.language # <<>> /\ block.language # Str.text
                        THEN <<<<"l", "a", "n", "g", "u", "a", "g", "e", "-">> \o block.language>>
                        ELSE <<>>,
                        <<TextNode(IF block.line_numbers
                                   THEN _strip_line_numbers(block.content)
                                   ELSE block.content)>>)>>)
        appended == AddTerms(soup, body, [i \in 1..Len(blocks) |-> pre(blocks[i])])
        RECURSIVE str(_)
        str(n) == [ tag |-> appended[n].tag, cls |-> appended[n].cls,
                    attrs |-> appended[n].attrs, text |-> appended[n].text,
                    kids |-> [i \in 1..Len(appended[n].kids) |-> str(appended[n].kids[i])] ]
    IN  IF blocks = <<>> \/ trafilatura_html = <<>> THEN trafilatura_html
        ELSE str(1).kids

-----------------------------------------------------------------------------
(* ExtractorTool (src/agent/src/tools/extractor.py): the content           *)
(* classifier and the repair of fragmented inline code.                    *)

\* the characters of a string: printable ASCII, newline, tab, and the two
\* characters the model writes by name
CodeChars ==
    { " ", "!", "\"", "#", "$", "%", "&", "'", "(", ")", "*", "+", ",", "-", ".", "/",
      "0", "1", "2", "3", "4", "5", "6", "7", "8", "9", ":", ";", "<", "=", ">", "?",
      "@", "A", "B", "C", "D", "E", "F", "G", "H", "I", "J", "K", "L", "M", "N", "O",
      "P", "Q", "R", "S", "T", "U", "V", "W", "X", "Y", "Z", "[", "\\", "]", "^", "_",
      "a", "b", "c", "d", "e", "f", "g", "h", "i", "j", "k", "l", "m", "n", "o", "p",
      "q", "r", "s", "t", "u", "v", "w", "x", "y", "z", "{", "|", "}", "~",
      "\n", "\t", BACKTICK, ZWSP }

\* the rules of ExtractorTool._detect_language_from_code in the order of its
\* if statements.  A rule fires when every group of `all` has a pattern
\* that is found; alternations are written as separate patterns; the
\* patterns of an IGNORECASE search are in lower case and searched in the
\* lower-cased code; the nested test of the C/C++ rule is the rule cpp
\* followed by the rule c; json marks the rule that also parses the code.
CODE_PATTERNS == <<
    [ lang |-> <<"h", "t", "m", "l">>, ignorecase |-> TRUE, json |-> FALSE, all |-> <<
            { Concat(<<Lit(<<"<", "!", "d", "o", "c", "t", "y", "p", "e", " ", "h", "t", "m", "l", ">">>)>>),
              Concat(<<Lit(<<"<", "h", "t", "m", "l">>)>>),
              Concat(<<Lit(<<"<", "d", "i", "v">>)>>),
              Concat(<<Lit(<<"<", "h", "e", "a", "d">>)>>),
              Concat(<<Lit(<<"<", "b", "o", "d", "y">>)>>),
              Concat(<<Lit(<<"<", "s", "c", "r", "i", "p", "t">>)>>),
              Concat(<<Lit(<<"<", "s", "t", "y", "l", "e">>)>>) } >> ],
    [ lang |-> <<"x", "m", "l">>, ignorecase |-> FALSE, json |-> FALSE, all |-> <<
            { Concat(<<Lit(<<"<", "?", "x", "m", "l">>)>>),
              Concat(<<Lit(<<"<", "A", "p", "p", "D", "o", "m", "a", "i", "n">>), Class({"s"}, "?"), Lit(<<">">>)>>) } >> ],
    [ lang |-> <<"r", "u", "s", "t">>, ignorecase |-> FALSE, json |-> FALSE, all |-> <<
            { Concat(<<Anchor("b"), Lit(<<"f", "n">>), Class(Whitespace, "+"), Class(WordChars, "+"), Class(Whitespace, "*"), Lit(<<"(">>)>>) },
            { Concat(<<Anchor("b"), Lit(<<"l", "e", "t">>), Class(Whitespace, "+"), Lit(<<"m", "u", "t">>), Class(Whitespace, "+")>>),
              Concat(<<Lit(<<"u", "s", "e">>), Class(Whitespace, "+"), Lit(<<"s", "t", "d", ":", ":">>)>>),
              Concat(<<Lit(<<"p", "r", "i", "n", "t", "l", "n", "!">>)>>) } >> ],
    [ lang |-> <<"j", "a", "v", "a", "s", "c", "r", "i", "p", "t">>, ignorecase |-> FALSE, json |-> FALSE, all |-> <<
            { Concat(<<Anchor("b"), Lit(<<"c", "o", "n", "s", "t">>), Class(Whitespace, "+"), Class(WordChars, "+")>>),
              Concat(<<Anchor("b"), Lit(<<"l", "e", "t">>), Class(Whitespace, "+"), Class(WordChars, "+")>>),
              Concat(<<Anchor("b"), Lit(<<"v", "a", "r">>), Class(Whitespace, "+"), Class(WordChars, "+")>>),
              Concat(<<Anchor("b"), Lit(<<"f", "u", "n", "c", "t", "i", "o", "n">>), Class(Whitespace, "+"), Class(WordChars, "+"), Class(Whitespace, "*"), Lit(<<"(">>)>>),
              Concat(<<Lit(<<"=", ">">>)>>),
              Concat(<<Lit(<<"c", "o", "n", "s", "o", "l", "e", ".", "l", "o", "g">>)>>),
              Concat(<<Lit(<<"c", "o", "n", "s", "o", "l", "e", ".", "e", "r", "r", "o", "r">>)>>),
              Concat(<<Lit(<<"c", "o", "n", "s", "o", "l", "e", ".", "w", "a", "r", "n">>)>>),
              Concat(<<Lit(<<"a", "s", "y", "n", "c">>), Class(Whitespace, "+"), Lit(<<"f", "u", "n", "c", "t", "i", "o", "n">>)>>),
              Concat(<<Lit(<<"a", "w", "a", "i", "t">>), Class(Whitespace, "+")>>),
              Concat(<<Lit(<<".", "t", "h", "e", "n", "(">>)>>),
              Concat(<<Lit(<<"O", "f", "f", "i", "c", "e", ".", "c", "o", "n", "t", "e", "x", "t">>)>>),
              Concat(<<Lit(<<"O", "f", "f", "i", "c", "e", ".", "o", "n", "R", "e", "a", "d", "y">>)>>),
              Concat(<<Lit(<<"a", "s", "y", "n", "c", "R", "e", "s", "u", "l", "t">>)>>),
              Concat(<<Lit(<<"g", "e", "t", "E", "l", "e", "m", "e", "n", "t", "B", "y", "I", "d">>)>>),
              Concat(<<Lit(<<"q", "u", "e", "r", "y", "S", "e", "l", "e", "c", "t", "o", "r">>)>>) } >> ],
    [ lang |-> <<"t", "y", "p", "e", "s", "c", "r", "i", "p", "t">>, ignorecase |-> FALSE, json |-> FALSE, all |-> <<
            { Concat(<<Lit(<<":">>), Class(Whitespace, "*"), Lit(<<"s", "t", "r", "i", "n", "g">>), Anchor("b")>>),
              Concat(<<Lit(<<":">>), Class(Whitespace, "*"), Lit(<<"n", "u", "m", "b", "e", "r">>), Anchor("b")>>),
              Concat(<<Lit(<<":">>), Class(Whitespace, "*"), Lit(<<"b", "o", "o", "l", "e", "a", "n">>), Anchor("b")>>),
              Concat(<<Lit(<<":">>), Class(Whitespace, "*"), Lit(<<"v", "o", "i", "d">>), Anchor("b")>>),
              Concat(<<Lit(<<":">>), Class(Whitespace, "*"), Lit(<<"a", "n", "y">>), Anchor("b")>>),
              Concat(<<Anchor("b"), Lit(<<"i", "n", "t", "e", "r", "f", "a", "c", "e">>), Class(Whitespace, "+"), Class(WordChars, "+")>>) } >> ],
    [ lang |-> <<"p", "y", "t", "h", "o", "n">>, ignorecase |-> FALSE, json |-> FALSE, all |-> <<
            { Concat(<<Anchor("b"), Lit(<<"i", "m", "p", "o", "r", "t">>), Class(Whitespace, "+"), Class(WordChars, "+")>>),
              Concat(<<Anchor("b"), Lit(<<"f", "r", "o", "m">>), Class(Whitespace, "+"), Class(WordChars, "+")>>),
              Concat(<<Anchor("b"), Lit(<<"d", "e", "f">>), Class(Whitespace, "+"), Class(WordChars, "+"), Class(Whitespace, "*"), Lit(<<"(">>)>>),
              Concat(<<Anchor("b"), Lit(<<"c", "l", "a", "s", "s">>), Class(Whitespace, "+"), Class(WordChars, "+")>>),
              Concat(<<Anchor("b"), Lit(<<"p", "r", "i", "n", "t">>), Class(Whitespace, "*"), Lit(<<"(">>)>>),
              Concat(<<Lit(<<"i", "f">>), Class(Whitespace, "+"), Lit(<<"_", "_", "n", "a", "m", "e", "_", "_">>), Class(Whitespace, "*"), Lit(<<"=", "=">>)>>),
              Concat(<<Lit(<<":">>), Class(Whitespace, "*"), Anchor("eol")>>) } >> ],
    [ lang |-> <<"b", "a", "s", "h">>, ignorecase |-> FALSE, json |-> FALSE, all |-> <<
            { Concat(<<Anchor("bol"), Lit(<<"$">>), Class(Whitespace, "1")>>),
              Concat(<<Anchor("bol"), Lit(<<"#", "!">>), Class(Whitespace, "*"), Lit(<<"/", "b", "i", "n", "/", "b", "a", "s", "h">>)>>),
              Concat(<<Anchor("bol"), Lit(<<"#", "!">>), Class(Whitespace, "*"), Lit(<<"/", "b", "i", "n", "/", "s", "h">>)>>),
              Concat(<<Anchor("b"), Lit(<<"s", "u", "d", "o">>), Class(Whitespace, "1")>>),
              Concat(<<Anchor("b"), Lit(<<"a", "p", "t", "-", "g", "e", "t">>), Class(Whitespace, "1")>>),
              Concat(<<Anchor("b"), Lit(<<"b", "r", "e", "w">>), Class(Whitespace, "1")>>),
              Concat(<<Anchor("b"), Lit(<<"n", "p", "m">>), Class(Whitespace, "1")>>),
              Concat(<<Anchor("b"), Lit(<<"p", "i", "p">>), Class(Whitespace, "1")>>),
              Concat(<<Anchor("b"), Lit(<<"g", "i", "t">>), Class(Whitespace, "1")>>),
              Concat(<<Anchor("b"), Lit(<<"d", "o", "c", "k", "e", "r">>), Class(Whitespace, "1")>>),
              Concat(<<Anchor("b"), Lit(<<"c", "d">>), Class(Whitespace, "1")>>),
              Concat(<<Anchor("b"), Lit(<<"l", "s">>), Class(Whitespace, "1")>>),
              Concat(<<Anchor("b"), Lit(<<"m", "k", "d", "i", "r">>), Class(Whitespace, "1")>>),
              Concat(<<Anchor("b"), Lit(<<"e", "x", "p", "o", "r", "t">>), Class(Whitespace, "+"), Class(WordChars, "+"), Lit(<<"=">>)>>) } >> ],
    [ lang |-> <<"j", "s", "o", "n">>, ignorecase |-> FALSE, json |-> TRUE, all |-> <<
            { Concat(<<Lit(<<":">>), Class(Whitespace, "*"), Class({"{", "[", "\"", "'"} \cup DigitSet, "1")>>) } >> ],
    [ lang |-> <<"c", "s", "s">>, ignorecase |-> FALSE, json |-> FALSE, all |-> <<
            { Concat(<<Class(WordChars, "+"), Class(Whitespace, "*"), Lit(<<"{">>), Class(CodeChars \ {"}"}, "*"), Lit(<<"}">>)>>) },
            { Concat(<<Lit(<<"c", "o", "l", "o", "r", ":">>)>>),
              Concat(<<Lit(<<"w", "i", "d", "t", "h", ":">>)>>),
              Concat(<<Lit(<<"h", "e", "i", "g", "h", "t", ":">>)>>),
              Concat(<<Lit(<<"m", "a", "r", "g", "i", "n", ":">>)>>),
              Concat(<<Lit(<<"p", "a", "d", "d", "i", "n", "g", ":">>)>>) } >> ],
    [ lang |-> <<"s", "q", "l">>, ignorecase |-> TRUE, json |-> FALSE, all |-> <<
            { Concat(<<Anchor("b"), Lit(<<"s", "e", "l", "e", "c", "t">>), Anchor("b")>>),
              Concat(<<Anchor("b"), Lit(<<"i", "n", "s", "e", "r", "t">>), Anchor("b")>>),
              Concat(<<Anchor("b"), Lit(<<"u", "p", "d", "a", "t", "e">>), Anchor("b")>>),
              Concat(<<Anchor("b"), Lit(<<"d", "e", "l", "e", "t", "e">>), Anchor("b")>>),
              Concat(<<Anchor("b"), Lit(<<"c", "r", "e", "a", "t", "e">>), Anchor("b")>>),
              Concat(<<Anchor("b"), Lit(<<"d", "r", "o", "p">>), Anchor("b")>>),
              Concat(<<Anchor("b"), Lit(<<"a", "l", "t", "e", "r">>), Anchor("b")>>),
              Concat(<<Anchor("b"), Lit(<<"f", "r", "o", "m">>), Anchor("b")>>),
              Concat(<<Anchor("b"), Lit(<<"w", "h", "e", "r", "e">>), Anchor("b")>>),
              Concat(<<Anchor("b"), Lit(<<"j", "o", "i", "n">>), Anchor("b")>>) } >> ],
    [ lang |-> <<"y", "a", "m", "l">>, ignorecase |-> FALSE, json |-> FALSE, all |-> <<
            { Concat(<<Anchor("bol"), Class(WordChars, "+"), Lit(<<":">>), Class(Whitespace, "*"), Anchor("eol")>>),
              Concat(<<Anchor("bol"), Class(Whitespace, "+"), Lit(<<"-">>), Class(Whitespace, "+"), Class(WordChars, "+")>>) } >> ],
    [ lang |-> <<"g", "o">>, ignorecase |-> FALSE, json |-> FALSE, all |-> <<
            { Concat(<<Anchor("b"), Lit(<<"p", "a", "c", "k", "a", "g", "e">>), Class(Whitespace, "+"), Class(WordChars, "+")>>),
              Concat(<<Anchor("b"), Lit(<<"f", "u", "n", "c">>), Class(Whitespace, "+"), Class(WordChars, "+"), Class(Whitespace, "*"), Lit(<<"(">>)>>) } >> ],
    [ lang |-> <<"r", "u", "s", "t">>, ignorecase |-> FALSE, json |-> FALSE, all |-> <<
            { Concat(<<Anchor("b"), Lit(<<"f", "n">>), Class(Whitespace, "+"), Class(WordChars, "+")>>),
              Concat(<<Anchor("b"), Lit(<<"l", "e", "t">>), Class(Whitespace, "+"), Lit(<<"m", "u", "t">>), Class(Whitespace, "+")>>),
              Concat(<<Lit(<<"u", "s", "e">>), Class(Whitespace, "+"), Lit(<<"s", "t", "d", ":", ":">>)>>) } >> ],
    [ lang |-> <<"j", "a", "v", "a">>, ignorecase |-> FALSE, json |-> FALSE, all |-> <<
            { Concat(<<Anchor("b"), Lit(<<"p", "u", "b", "l", "i", "c">>), Class(Whitespace, "+"), Lit(<<"c", "l", "a", "s", "s">>)>>),
              Concat(<<Anchor("b"), Lit(<<"p", "u", "b", "l", "i", "c">>), Class(Whitespace, "+"), Lit(<<"i", "n", "t", "e", "r", "f", "a", "c", "e">>)>>),
              Concat(<<Anchor("b"), Lit(<<"p", "r", "i", "v", "a", "t", "e">>), Class(Whitespace, "+"), Lit(<<"c", "l", "a", "s", "s">>)>>),
              Concat(<<Anchor("b"), Lit(<<"p", "r", "i", "v", "a", "t", "e">>), Class(Whitespace, "+"), Lit(<<"i", "n", "t", "e", "r", "f", "a", "c", "e">>)>>),
              Concat(<<Anchor("b"), Lit(<<"p", "r", "o", "t", "e", "c", "t", "e", "d">>), Class(Whitespace, "+"), Lit(<<"c", "l", "a", "s", "s">>)>>),
              Concat(<<Anchor("b"), Lit(<<"p", "r", "o", "t", "e", "c", "t", "e", "d">>), Class(Whitespace, "+"), Lit(<<"i", "n", "t", "e", "r", "f", "a", "c", "e">>)>>),
              Concat(<<Lit(<<"S", "y", "s", "t", "e", "m", ".", "o", "u", "t", ".", "p", "r", "i", "n", "t", "l", "n">>)>>) } >> ],
    [ lang |-> <<"c", "p", "p">>, ignorecase |-> FALSE, json |-> FALSE, all |-> <<
            { Concat(<<Lit(<<"#", "i", "n", "c", "l", "u", "d", "e">>), Class(Whitespace, "*"), Lit(<<"<">>)>>),
              Concat(<<Anchor("b"), Lit(<<"s", "t", "d", ":", ":">>)>>),
              Concat(<<Lit(<<"i", "n", "t">>), Class(Whitespace, "+"), Lit(<<"m", "a", "i", "n">>), Class(Whitespace, "*"), Lit(<<"(">>)>>) },
            { Concat(<<Anchor("b"), Lit(<<"s", "t", "d", ":", ":">>)>>),
              Concat(<<Lit(<<"#", "i", "n", "c", "l", "u", "d", "e">>), Class(Whitespace, "*"), Lit(<<"<", "i", "o", "s", "t", "r", "e", "a", "m", ">">>)>>) } >> ],
    [ lang |-> <<"c">>, ignorecase |-> FALSE, json |-> FALSE, all |-> <<
            { Concat(<<Lit(<<"#", "i", "n", "c", "l", "u", "d", "e">>), Class(Whitespace, "*"), Lit(<<"<">>)>>),
              Concat(<<Anchor("b"), Lit(<<"s", "t", "d", ":", ":">>)>>),
              Concat(<<Lit(<<"i", "n", "t">>), Class(Whitespace, "+"), Lit(<<"m", "a", "i", "n">>), Class(Whitespace, "*"), Lit(<<"(">>)>>) } >> ],
    [ lang |-> <<"c", "s", "h", "a", "r", "p">>, ignorecase |-> FALSE, json |-> FALSE, all |-> <<
            { Concat(<<Anchor("b"), Lit(<<"n", "a", "m", "e", "s", "p", "a", "c", "e">>), Class(Whitespace, "+"), Class(WordChars, "+")>>),
              Concat(<<Anchor("b"), Lit(<<"u", "s", "i", "n", "g">>), Class(Whitespace, "+"), Lit(<<"S", "y", "s", "t", "e", "m">>)>>) } >> ],
    [ lang |-> <<"r", "u", "b", "y">>, ignorecase |-> FALSE, json |-> FALSE, all |-> <<
            { Concat(<<Anchor("b"), Lit(<<"d", "e", "f">>), Anchor("b")>>),
              Concat(<<Anchor("b"), Lit(<<"e", "n", "d">>), Anchor("b")>>),
              Concat(<<Anchor("b"), Lit(<<"r", "e", "q", "u", "i", "r", "e">>), Anchor("b")>>),
              Concat(<<Anchor("b"), Lit(<<"p", "u", "t", "s">>), Anchor("b")>>),
              Concat(<<Anchor("b"), Lit(<<"a", "t", "t", "r", "_", "a", "c", "c", "e", "s", "s", "o", "r">>), Anchor("b")>>) } >> ],
    [ lang |-> <<"p", "h", "p">>, ignorecase |-> FALSE, json |-> FALSE, all |-> <<
            { Concat(<<Lit(<<"<", "?", "p", "h", "p">>)>>),
              Concat(<<Lit(<<"$">>), Class(WordChars, "+"), Class(Whitespace, "*"), Lit(<<"=">>)>>) } >> ],
    [ lang |-> <<"s", "w", "i", "f", "t">>, ignorecase |-> FALSE, json |-> FALSE, all |-> <<
            { Concat(<<Anchor("b"), Lit(<<"f", "u", "n", "c">>), Class(Whitespace, "+"), Class(WordChars, "+")>>),
              Concat(<<Anchor("b"), Lit(<<"v", "a", "r">>), Class(Whitespace, "+"), Class(WordChars, "+")>>),
              Concat(<<Anchor("b"), Lit(<<"l", "e", "t">>), Class(Whitespace, "+"), Class(WordChars, "+")>>) },
            { Concat(<<Lit(<<"-", ">">>)>>) } >> ],
    [ lang |-> <<"k", "o", "t", "l", "i", "n">>, ignorecase |-> FALSE, json |-> FALSE, all |-> <<
            { Concat(<<Anchor("b"), Lit(<<"f", "u", "n">>), Class(Whitespace, "+"), Class(WordChars, "+")>>),
              Concat(<<Anchor("b"), Lit(<<"v", "a", "l">>), Class(Whitespace, "+"), Class(WordChars, "+")>>),
              Concat(<<Anchor("b"), Lit(<<"v", "a", "r">>), Class(Whitespace, "+"), Class(WordChars, "+")>>) } >> ],
    [ lang |-> <<"m", "a", "r", "k", "d", "o", "w", "n">>, ignorecase |-> FALSE, json |-> FALSE, all |-> <<
            { Concat(<<Anchor("bol"), Class({"#"}, "1"), Class({"#"}, "?"), Class({"#"}, "?"), Class({"#"}, "?"), Class({"#"}, "?"), Class({"#"}, "?"), Class(Whitespace, "1")>>) },
            { Concat(<<Lit(<<"[">>), Class(CodeChars \ {"\n"}, "*"), Lit(<<"]", "(">>), Class(CodeChars \ {"\n"}, "*"), Lit(<<")">>)>>) } >> ],
    [ lang |-> <<"d", "o", "c", "k", "e", "r", "f", "i", "l", "e">>, ignorecase |-> TRUE, json |-> FALSE, all |-> <<
            { Concat(<<Anchor("bol"), Class(Whitespace, "*"), Lit(<<"f", "r", "o", "m">>), Class(Whitespace, "+")>>),
              Concat(<<Anchor("bol"), Class(Whitespace, "*"), Lit(<<"r", "u", "n">>), Class(Whitespace, "+")>>),
              Concat(<<Anchor("bol"), Class(Whitespace, "*"), Lit(<<"c", "o", "p", "y">>), Class(Whitespace, "+")>>),
              Concat(<<Anchor("bol"), Class(Whitespace, "*"), Lit(<<"a", "d", "d">>), Class(Whitespace, "+")>>),
              Concat(<<Anchor("bol"), Class(Whitespace, "*"), Lit(<<"w", "o", "r", "k", "d", "i", "r">>), Class(Whitespace, "+")>>),
              Concat(<<Anchor("bol"), Class(Whitespace, "*"), Lit(<<"e", "n", "v">>), Class(Whitespace, "+")>>),
              Concat(<<Anchor("bol"), Class(Whitespace, "*"), Lit(<<"e", "x", "p", "o", "s", "e">>), Class(Whitespace, "+")>>) } >> ] >>

\* json.loads(code) returns: the code is one JSON text.  JsonEnd is the
\* position after the value, the members of an object or the elements of an
\* array that start at s[p0], 0 when there is none.  Strings are without
\* escapes, numbers without exponent.
json_loads(code) ==
    LET RECURSIVE JsonEnd(_, _, _)
        JsonEnd(s, p0, what) ==
            LET p == p0 + RunLen(s, p0, Whitespace)
                c == IF p <= Len(s) THEN s[p] ELSE ""
                string_end(a) ==
                    LET e == a + 1 + RunLen(s, a + 1, CodeChars \ {"\"", "\\", "\n", "\t"})
                    IN  IF a <= Len(s) /\ s[a] = "\"" /\ e <= Len(s) /\ s[e] = "\""
                        THEN e + 1 ELSE 0
                number_end ==
                    LET a == IF c = "-" THEN p + 1 ELSE p
                        n == RunLen(s, a, DigitSet)
                        f == IF a + n <= Len(s) /\ s[a + n] = "."
                             THEN RunLen(s, a + n + 1, DigitSet) ELSE 0
                    IN  IF n = 0 \/ (n > 1 /\ s[a] = "0") THEN 0
                        ELSE IF a + n <= Len(s) /\ s[a + n] = "."
                        THEN IF f = 0 THEN 0 ELSE a + n + 1 + f
                        ELSE a + n
                rest(v, close) ==
                    LET r == v + RunLen(s, v, Whitespace)
                    IN  IF v = 0 \/ r > Len(s) THEN 0
                        ELSE IF s[r] = "," THEN JsonEnd(s, r + 1, what)
                        ELSE IF s[r] = close THEN r + 1
                        ELSE 0
                inside(open) ==
                    LET r == p + 1 + RunLen(s, p + 1, Whitespace)
                    IN  IF r <= Len(s) /\ s[r] = (IF open = "{" THEN "}" ELSE "]")
                        THEN r + 1
                        ELSE JsonEnd(s, p + 1, IF open = "{" THEN "members" ELSE "elements")
                colon == string_end(p) + RunLen(s, string_end(p), Whitespace)
            IN  IF what = "members"
                THEN IF string_end(p) = 0 \/ colon > Len(s) \/ s[colon] # ":" THEN 0
                     ELSE rest(JsonEnd(s, colon + 1, "value"), "}")
                ELSE IF what = "elements"
                THEN rest(JsonEnd(s, p, "value"), "]")
                ELSE IF c = "\"" THEN string_end(p)
                ELSE IF c \in DigitSet \cup {"-"} THEN number_end
                ELSE IF c \in {"{", "["} THEN inside(c)
                ELSE IF StartsAt(s, p, <<"t", "r", "u", "e">>) THEN p + 4
                ELSE IF StartsAt(s, p, <<"f", "a", "l", "s", "e">>) THEN p + 5
                ELSE IF StartsAt(s, p, <<"n", "u", "l", "l">>) THEN p + 4
                ELSE 0
        end == JsonEnd(code, 1, "value")
    IN  end # 0 /\ end + RunLen(code, end, Whitespace) = Len(code) + 1

\* ExtractorTool._detect_language_from_code: the language of the first rule
\* that fires, "" when none does
_detect_language_from_code(code) ==
    LET fires(rule) ==
            /\ \A g \in 1..Len(rule.all) : \E pattern \in rule.all[g] :
                   re_search(pattern, IF rule.ignorecase THEN str_lower(code) ELSE code)
            /\ rule.json => /\ strip(code) # <<>>
                            /\ strip(code)[1] \in {"{", "["}
                            /\ json_loads(code)
        hits == { i \in 1..Len(CODE_PATTERNS) : fires(CODE_PATTERNS[i]) }
    IN  IF hits = {} THEN <<>>
        ELSE CODE_PATTERNS[CHOOSE i \in hits : \A k \in hits : i <= k].lang

\* ExtractorTool._normalize_language_name: lang_map.get(lang, lang)
_normalize_language_name(lang) ==
    LET lang_map ==
            { <<<<"j", "s">>, <<"j", "a", "v", "a", "s", "c", "r", "i", "p", "t">>>>, <<<<"j", "s", "x">>, <<"j", "a", "v", "a", "s", "c", "r", "i", "p", "t">>>>,
              <<<<"n", "o", "d", "e">>, <<"j", "a", "v", "a", "s", "c", "r", "i", "p", "t">>>>, <<<<"t", "s">>, <<"t", "y", "p", "e", "s", "c", "r", "i", "p", "t">>>>,
              <<<<"t", "s", "x">>, <<"t", "y", "p", "e", "s", "c", "r", "i", "p", "t">>>>, <<<<"p", "y">>, <<"p", "y", "t", "h", "o", "n">>>>,
              <<<<"p", "y", "t", "h", "o", "n", "3">>, <<"p", "y", "t", "h", "o", "n">>>>, <<<<"p", "y", "t", "h", "o", "n", "2">>, <<"p", "y", "t", "h", "o", "n">>>>,
              <<<<"s", "h">>, <<"b", "a", "s", "h">>>>, <<<<"s", "h", "e", "l", "l">>, <<"b", "a", "s", "h">>>>,
              <<<<"z", "s", "h">>, <<"b", "a", "s", "h">>>>, <<<<"f", "i", "s", "h">>, <<"b", "a", "s", "h">>>>,
              <<<<"p", "o", "w", "e", "r", "s", "h", "e", "l", "l">>, <<"p", "o", "w", "e", "r", "s", "h", "e", "l", "l">>>>, <<<<"p", "s", "1">>, <<"p", "o", "w", "e", "r", "s", "h", "e", "l", "l">>>>,
              <<<<"y", "m", "l">>, <<"y", "a", "m", "l">>>>, <<<<"m", "d">>, <<"m", "a", "r", "k", "d", "o", "w", "n">>>>,
              <<<<"m", "d", "o", "w", "n">>, <<"m", "a", "r", "k", "d", "o", "w", "n">>>>, <<<<"h", "t", "m">>, <<"h", "t", "m", "l">>>>,
              <<<<"c", "+", "+">>, <<"c", "p", "p">>>>, <<<<"c", "p", "l", "u", "s", "p", "l", "u", "s">>, <<"c", "p", "p">>>>,
              <<<<"c", "#">>, <<"c", "s", "h", "a", "r", "p">>>>, <<<<"c", "s">>, <<"c", "s", "h", "a", "r", "p">>>>,
              <<<<"o", "b", "j", "c">>, <<"o", "b", "j", "e", "c", "t", "i", "v", "e", "-", "c">>>>, <<<<"k", "t">>, <<"k", "o", "t", "l", "i", "n">>>>,
              <<<<"g", "r", "o", "o", "v", "y">>, <<"g", "r", "o", "o", "v", "y">>>>, <<<<"s", "c", "a", "l", "a">>, <<"s", "c", "a", "l", "a">>>>,
              <<<<"h", "s">>, <<"h", "a", "s", "k", "e", "l", "l">>>>, <<<<"c", "l", "j">>, <<"c", "l", "o", "j", "u", "r", "e">>>>,
              <<<<"c", "l", "j", "s">>, <<"c", "l", "o", "j", "u", "r", "e">>>>, <<<<"e", "r", "l">>, <<"e", "r", "l", "a", "n", "g">>>>,
              <<<<"e", "x">>, <<"e", "l", "i", "x", "i", "r">>>>, <<<<"e", "x", "s">>, <<"e", "l", "i", "x", "i", "r">>>>,
              <<<<"f", "s">>, <<"f", "s", "h", "a", "r", "p">>>>, <<<<"f", "s", "x">>, <<"f", "s", "h", "a", "r", "p">>>>,
              <<<<"r", "s">>, <<"r", "u", "s", "t">>>>, <<<<"g", "o", "l", "a", "n", "g">>, <<"g", "o">>>>,
              <<<<"r", "b">>, <<"r", "u", "b", "y">>>>, <<<<"p", "l">>, <<"p", "e", "r", "l">>>>,
              <<<<"l", "u", "a">>, <<"l", "u", "a">>>>, <<<<"r">>, <<"r">>>>,
              <<<<"s", "w", "i", "f", "t">>, <<"s", "w", "i", "f", "t">>>>, <<<<"d", "a", "r", "t">>, <<"d", "a", "r", "t">>>>,
              <<<<"j", "s", "o", "n", "5">>, <<"j", "s", "o", "n">>>>, <<<<"j", "s", "o", "n", "c">>, <<"j", "s", "o", "n">>>>,
              <<<<"t", "o", "m", "l">>, <<"t", "o", "m", "l">>>>, <<<<"i", "n", "i">>, <<"i", "n", "i">>>>,
              <<<<"c", "f", "g">>, <<"i", "n", "i">>>>, <<<<"c", "o", "n", "f">>, <<"i", "n", "i">>>>,
              <<<<"p", "g", "s", "q", "l">>, <<"s", "q", "l">>>>, <<<<"m", "y", "s", "q", "l">>, <<"s", "q", "l">>>>,
              <<<<"p", "l", "s", "q", "l">>, <<"s", "q", "l">>>>, <<<<"t", "s", "q", "l">>, <<"s", "q", "l">>>>,
              <<<<"t", "e", "x">>, <<"l", "a", "t", "e", "x">>>>, <<<<"l", "a", "t", "e", "x">>, <<"l", "a", "t", "e", "x">>>>,
              <<<<"r", "s", "t">>, <<"r", "e", "s", "t", "r", "u", "c", "t", "u", "r", "e", "d", "t", "e", "x", "t">>>>, <<<<"a", "d", "o", "c">>, <<"a", "s", "c", "i", "i", "d", "o", "c">>>>,
              <<<<"d", "o", "c", "k", "e", "r", "f", "i", "l", "e">>, <<"d", "o", "c", "k", "e", "r", "f", "i", "l", "e">>>>, <<<<"d", "o", "c", "k", "e", "r">>, <<"d", "o", "c", "k", "e", "r", "f", "i", "l", "e">>>>,
              <<<<"m", "a", "k", "e", "f", "i", "l", "e">>, <<"m", "a", "k", "e", "f", "i", "l", "e">>>>, <<<<"m", "a", "k", "e">>, <<"m", "a", "k", "e", "f", "i", "l", "e">>>>,
              <<<<"g", "r", "a", "p", "h", "q", "l">>, <<"g", "r", "a", "p", "h", "q", "l">>>>, <<<<"g", "q", "l">>, <<"g", "r", "a", "p", "h", "q", "l">>>>,
              <<<<"p", "r", "o", "t", "o">>, <<"p", "r", "o", "t", "o", "b", "u", "f">>>>, <<<<"d", "i", "f", "f">>, <<"d", "i", "f", "f">>>>,
              <<<<"p", "a", "t", "c", "h">>, <<"d", "i", "f", "f">>>>, <<<<"r", "e", "g", "e", "x">>, <<"r", "e", "g", "e", "x">>>>,
              <<<<"r", "e", "g", "e", "x", "p">>, <<"r", "e", "g", "e", "x">>>> }
    IN  IF \E m \in lang_map : m[1] = lang
        THEN (CHOOSE m \in lang_map : m[1] = lang)[2]
        ELSE lang

\* ExtractorTool._extract_language_from_classes: the classes joined by
\* spaces are searched for each pattern in turn, a word boundary, the prefix
\* and a run of word characters; the first pattern that is found gives the
\* lower-cased run at its leftmost match.
_extract_language_from_classes(tree, element) ==
    LET classes == tree[element].cls
        class_str == join(<<" ">>, classes)
        patterns == << <<"l", "a", "n", "g", "-">>,
                      <<"l", "a", "n", "g", "u", "a", "g", "e", "-">>,
                      <<"s", "-", "l", "a", "n", "g", "-">>,
                      <<"h", "l", "j", "s", "-">>,
                      <<"p", "r", "i", "s", "m", "-">>,
                      <<"c", "o", "d", "e", "-">>,
                      <<"s", "y", "n", "t", "a", "x", "-">> >>
        matches(k) ==
            { p \in 1..Len(class_str) :
                  /\ p = 1 \/ class_str[p - 1] \notin WordChars
                  /\ StartsAt(class_str, p, patterns[k])
                  /\ RunLen(class_str, p + Len(patterns[k]), WordChars) > 0 }
        found == { k \in 1..Len(patterns) : matches(k) # {} }
        pattern == CHOOSE k \in found : \A other \in found : k <= other
        match == CHOOSE p \in matches(pattern) : \A other \in matches(pattern) : p <= other
        group == SubSeq(class_str, match + Len(patterns[pattern]),
                        match + Len(patterns[pattern])
                            + RunLen(class_str, match + Len(patterns[pattern]), WordChars) - 1)
    IN  IF classes = <<>> \/ found = {} THEN <<>>
        ELSE _normalize_language_name(str_lower(group))

\* fix_fragmented_code_blocks taking one digit off every line, not the run
\* of digits
fix_fragmented_code_blocks_one_digit(markdown) ==
    LET RECURSIVE match_end(_, _)
        match_end(s, p) ==
            LET q == p + RunLen(s, p, CodeChars \ {"\n", BACKTICK})
            IN  IF p > Len(s) \/ s[p] \notin DigitSet \/ q > Len(s) THEN 0
                ELSE IF s[q] = BACKTICK THEN q
                ELSE match_end(s, q + 1)
        replace_code_block(content) ==
            LET lines == split(content, "\n")
                cleaned_lines == [i \in 1..Len(lines) |->
                    SubSeq(lines[i], 2, Len(lines[i]))]
                code_content == join(<<"\n">>, cleaned_lines)
                lang == _detect_language_from_code(code_content)
            IN  <<"\n">> \o fence \o lang \o <<"\n">> \o code_content
                    \o <<"\n">> \o fence \o <<"\n">>
        RECURSIVE sub(_, _)
        sub(s, p) ==
            IF p > Len(s) THEN <<>>
            ELSE IF s[p] = BACKTICK /\ match_end(s, p + 1) # 0
            THEN replace_code_block(SubSeq(s, p + 1, match_end(s, p + 1) - 1))
                     \o sub(s, match_end(s, p + 1) + 1)
            ELSE <<s[p]>> \o sub(s, p + 1)
    IN  sub(markdown, 1)

\* ExtractorTool.fix_fragmented_code_blocks: re.sub of the pattern, from
\* left to right.  A match starts at a backtick; each of its lines starts
\* with a digit and has neither a newline nor a backtick; it ends at the
\* backtick that follows a line.  match_end is the position of that
\* backtick for the line that starts at s[p], 0 when there is no match.
fix_fragmented_code_blocks(markdown) ==
    LET RECURSIVE match_end(_, _)
        match_end(s, p) ==
            LET q == p + RunLen(s, p, CodeChars \ {"\n", BACKTICK})
            IN  IF p > Len(s) \/ s[p] \notin DigitSet \/ q > Len(s) THEN 0
                ELSE IF s[q] = BACKTICK THEN q
                ELSE match_end(s, q + 1)
        replace_code_block(content) ==
            LET lines == split(content, "\n")
                cleaned_lines == [i \in 1..Len(lines) |->
                    SubSeq(lines[i], RunLen(lines[i], 1, DigitSet) + 1, Len(lines[i]))]
                code_content == join(<<"\n">>, cleaned_lines)
                lang == _detect_language_from_code(code_content)
            IN  <<"\n">> \o fence \o lang \o <<"\n">> \o code_content
                    \o <<"\n">> \o fence \o <<"\n">>
        RECURSIVE sub(_, _)
        sub(s, p) ==
            IF p > Len(s) THEN <<>>
            ELSE IF s[p] = BACKTICK /\ match_end(s, p + 1) # 0
            THEN replace_code_block(SubSeq(s, p + 1, match_end(s, p + 1) - 1))
                     \o sub(s, match_end(s, p + 1) + 1)
            ELSE <<s[p]>> \o sub(s, p + 1)
    IN  sub(markdown, 1)

\* ExtractorTool.clean_markdown: of consecutive blank lines the first stays
clean_markdown(markdown) ==
    LET lines == split(markdown, "\n")
        RECURSIVE cleaned(_, _)
        cleaned(i, prev_blank) ==
            IF i > Len(lines) THEN <<>>
            ELSE LET is_blank == strip(lines[i]) = <<>>
                 IN  IF is_blank /\ prev_blank THEN cleaned(i + 1, prev_blank)
                     ELSE <<lines[i]>> \o cleaned(i + 1, is_blank)
    IN  join(<<"\n">>, cleaned(1, FALSE))

-----------------------------------------------------------------------------
(* NormalizerTool (src/agent/src/tools/normalizer.py)                      *)

\* NormalizerTool.normalize_links.  The pattern \[([^\]]+)\]\(([^)]+)\) matches
\* at a [ when the first ] after it is not next to it and is followed by (,
\* and the first ) after that is not next to the (.  urljoin and the url
\* functions of strip_tracking are modelled for a base url of the form
\* scheme://host/path and for the urls of links: a url with a scheme, a path
\* from the root, a path relative to the directory of the base; the query of
\* a url is key=value pairs of unreserved characters.
normalize_links(markdown, base_url) ==
    LET _tracking_params ==
            { <<"u", "t", "m", "_", "s", "o", "u", "r", "c", "e">>,
              <<"u", "t", "m", "_", "m", "e", "d", "i", "u", "m">>,
              <<"u", "t", "m", "_", "c", "a", "m", "p", "a", "i", "g", "n">>,
              <<"u", "t", "m", "_", "t", "e", "r", "m">>,
              <<"u", "t", "m", "_", "c", "o", "n", "t", "e", "n", "t">>,
              <<"f", "b", "c", "l", "i", "d">>,
              <<"g", "c", "l", "i", "d">>,
              <<"m", "s", "c", "l", "k", "i", "d">>,
              <<"r", "e", "f">>,
              <<"s", "o", "u", "r", "c", "e">> }
        path_start == find_from(base_url, find_from(base_url, 1, <<":", "/", "/">>) + 3, <<"/">>)
        origin == IF path_start = 0 THEN base_url ELSE SubSeq(base_url, 1, path_start - 1)
        directory ==
            IF path_start = 0 THEN <<"/">>
            ELSE SubSeq(base_url, path_start,
                        CHOOSE i \in path_start..Len(base_url) :
                            /\ base_url[i] = "/"
                            /\ \A j \in (i + 1)..Len(base_url) : base_url[j] # "/")
        \* urlparse drops the newlines and tabs of a url
        urljoin(given) ==
            LET url == SelectSeq(given, LAMBDA c : c \notin {"\n", "\t"})
            IN  IF Contains(url, <<":", "/", "/">>) THEN url
                ELSE IF StartsAt(url, 1, <<"/">>) THEN origin \o url
                ELSE origin \o directory \o url
        strip_tracking(url) ==
            LET mark == find_from(url, 1, <<"?">>)
                query_params == split(SubSeq(url, mark + 1, Len(url)), "&")
                key(param) == split(param, "=")[1]
                cleaned_params ==
                    SelectSeq(query_params,
                              LAMBDA param : /\ Len(split(param, "=")) = 2
                                             /\ split(param, "=")[2] # <<>>
                                             /\ key(param) \notin _tracking_params)
            IN  IF mark = 0 THEN url
                ELSE IF cleaned_params = <<>> THEN SubSeq(url, 1, mark - 1)
                ELSE SubSeq(url, 1, mark) \o join(<<"&">>, cleaned_params)
        normalize_link(text, url) ==
            IF StartsAt(url, 1, <<"#">>) \/ StartsAt(url, 1, <<"m", "a", "i", "l", "t", "o", ":">>)
            THEN <<"[">> \o text \o <<"]", "(">> \o url \o <<")">>
            ELSE <<"[">> \o text \o <<"]", "(">> \o strip_tracking(urljoin(url)) \o <<")">>
        RECURSIVE sub(_, _)
        sub(s, p) ==
            IF p > Len(s) THEN <<>>
            ELSE LET q == find_from(s, p + 1, <<"]">>)
                     r == find_from(s, q + 2, <<")">>)
                 IN  IF /\ s[p] = "["
                        /\ q > p + 1
                        /\ StartsAt(s, q + 1, <<"(">>)
                        /\ r > q + 2
                     THEN normalize_link(SubSeq(s, p + 1, q - 1), SubSeq(s, q + 2, r - 1))
                              \o sub(s, r + 1)
                     ELSE <<s[p]>> \o sub(s, p + 1)
    IN  sub(markdown, 1)

-----------------------------------------------------------------------------
(* Inputs of the preprocessor *)

\* the largest number of top-level regions of a document
MaxRegions == 2

\* the largest number of blocks handed to reinsert_code_blocks
MaxBlocks == 11

NoExtraction == [called |-> FALSE, raised |-> FALSE, html |-> <<>>, blocks |-> <<>>]

NoReinsertion == [called |-> FALSE, result |-> <<>>]

-----------------------------------------------------------------------------
(* PlaywrightProbeTool (src/agent/src/tools/playwright_probe.py).  The     *)
(* variable probe is the tool with what it started: _playwright and        *)
(* _browser are the fields of the tool, 0 for None, otherwise the number   *)
(* of the playwright (1..started) and of the browser (1..launched);        *)
(* stopped and closed are the playwrights and browsers whose stop() and    *)
(* close() were called; pages are the open pages among 1..opened.  pc,     *)
(* browser, page, seen and flags are the position and the locals of the    *)
(* detect_blockers call in progress, calls the number of calls; last is    *)
(* the call that ended last.  An outcome of a library call is "ok" or the  *)
(* exception it raises, "TimeoutError" or "Error".                         *)

\* the largest number of detect_blockers calls
MaxProbes == 2

NoPage == [ status |-> 0, content |-> {}, text |-> {}, forms |-> FALSE,
            overlay |-> {}, iframes |-> 0, text_len |-> 0 ]

\* __init__
NewProbe ==
    [ _playwright |-> 0, _browser |-> 0,
      started |-> 0, stopped |-> {}, launched |-> 0, closed |-> {},
      opened |-> 0, pages |-> {},
      pc |-> "idle", browser |-> 0, page |-> 0, seen |-> NoPage,
      flags |-> [true |-> {}, error |-> "None"], calls |-> 0,
      last |-> [op |-> "none", raised |-> FALSE, page |-> 0, value |-> <<>>] ]

\* the except clauses of detect_blockers
Caught(p, exception) ==
    [p EXCEPT !.flags.error = IF exception = "TimeoutError" THEN "Page load timeout"
                              ELSE "Probe error: Error",
              !.pc = "finally"]

\* PlaywrightProbeTool._get_browser in the try of detect_blockers: start and
\* launch are the outcomes of sync_playwright().start() and chromium.launch()
_get_browser(p, start, launch) ==
    IF p._browser # 0 THEN [p EXCEPT !.browser = p._browser, !.pc = "new_page"]
    ELSE IF start # "ok" THEN Caught(p, start)
    ELSE IF launch # "ok"
    THEN Caught([p EXCEPT !._playwright = p.started + 1, !.started = @ + 1], launch)
    ELSE [p EXCEPT !._playwright = p.started + 1, !.started = @ + 1,
                   !._browser = p.launched + 1, !.launched = @ + 1,
                   !.browser = p.launched + 1, !.pc = "new_page"]

\* browser.new_page(): a closed browser opens no page
new_page(p, outcome) ==
    IF p.browser \in p.closed THEN Caught(p, "Error")
    ELSE IF outcome # "ok" THEN Caught(p, outcome)
    ELSE [p EXCEPT !.page = p.opened + 1, !.opened = @ + 1,
                   !.pages = @ \cup {p.opened + 1}, !.pc = "goto"]

\* page.set_default_timeout and page.goto: outcome is an exception, "None"
\* for no response, or "ok" with the page that was loaded
goto(p, outcome, loaded) ==
    IF outcome = "None"
    THEN [p EXCEPT !.flags.error = "No response received", !.pc = "finally"]
    ELSE IF outcome # "ok" THEN Caught(p, outcome)
    ELSE [p EXCEPT !.seen = loaded, !.pc = "inspect"]

\* lines 70-168 of detect_blockers: the flags of the loaded page; failing is
\* the library call that raises, page.content(), the last
\* page.query_selector_all(), or "" for none, and outcome its exception
inspect(p, failing, outcome) ==
    LET seen == p.seen
        by_status == IF seen.status \in {401, 403} THEN {"login_required"} ELSE {}
        login == IF "login" \in seen.content /\ seen.forms
                 THEN {"login_required"} ELSE {}
        paywall == IF "paywall" \in (seen.content \cup seen.text \cup seen.overlay)
                   THEN {"paywall"} ELSE {}
        captcha == IF "captcha" \in seen.content THEN {"captcha"} ELSE {}
        has_iframe == seen.iframes >= 1 \/ "iframe" \in seen.content
        iframe == IF seen.text_len < 200 /\ has_iframe
                  THEN {"cross_origin_iframe"} ELSE {}
        thin == IF seen.text_len < 100 /\ by_status \cup login = {}
                THEN {"content_too_thin"} ELSE {}
    IN  IF failing = "content"
        THEN Caught([p EXCEPT !.flags.true = by_status], outcome)
        ELSE IF failing = "query_selector_all"
        THEN Caught([p EXCEPT !.flags.true = by_status \cup login \cup paywall \cup captcha],
                    outcome)
        ELSE [p EXCEPT !.flags.true = by_status \cup login \cup paywall \cup captcha
                                          \cup iframe \cup thin,
                       !.pc = "finally"]

\* the finally clause and the return of detect_blockers: page.close() of
\* the page that was opened; when it raises, so does the call
finally(p, outcome) ==
    IF p.page # 0 /\ outcome # "ok"
    THEN [p EXCEPT !.pc = "idle",
                   !.last = [op |-> "detect_blockers", raised |-> TRUE,
                             page |-> p.page, value |-> <<>>]]
    ELSE [p EXCEPT !.pc = "idle", !.pages = @ \ {p.page},
                   !.last = [op |-> "detect_blockers", raised |-> FALSE, page |-> p.page,
                             value |-> ProbeDict(p.flags.true, p.flags.error)]]

\* close with the two assignments after the calls, not in a finally clause
close_without_finally(p, browser_close, playwright_stop) ==
    LET raises == \/ p._browser # 0 /\ browser_close # "ok"
                  \/ p._playwright # 0 /\ playwright_stop # "ok"
    IN  [p EXCEPT !._browser = IF raises THEN @ ELSE 0,
                  !._playwright = IF raises THEN @ ELSE 0,
                  !.closed = IF p._browser # 0 THEN @ \cup {p._browser} ELSE @,
                  !.stopped = IF p._playwright # 0 /\ (p._browser = 0 \/ browser_close = "ok")
                              THEN @ \cup {p._playwright} ELSE @,
                  !.last = [op |-> "close", raised |-> raises, page |-> 0,
                            value |-> IF raises THEN "" ELSE "Playwright browser closed"]]

\* PlaywrightProbeTool.close: browser_close and playwright_stop are the
\* outcomes of self._browser.close() and self._playwright.stop(); stop() is
\* not reached when close() raises
close(p, browser_close, playwright_stop) ==
    LET closing == p._browser # 0
        stopping == p._playwright # 0 /\ ~(closing /\ browser_close # "ok")
        raises == \/ closing /\ browser_close # "ok"
                  \/ stopping /\ playwright_stop # "ok"
    IN  [p EXCEPT !._browser = 0,
                  !._playwright = 0,
                  !.closed = IF closing THEN @ \cup {p._browser} ELSE @,
                  !.stopped = IF stopping THEN @ \cup {p._playwright} ELSE @,
                  !.last = [op |-> "close", raised |-> raises, page |-> 0,
                            value |-> IF raises THEN "" ELSE "Playwright browser closed"]]

-----------------------------------------------------------------------------
(* The parts of the program at rest: a specification starts every part   *)
(* it does not exercise in this state, and never moves it.                *)

Idle(parts) ==
    /\ "ingest" \in parts =>
           /\ pc = "idle"
           /\ comparator_impl = "real"
           /\ request = <<>>
           /\ fetch_result = <<>>
           /\ extraction = <<>>
           /\ blocker_flags = EmptyDict
           /\ comparison = NoDecision
           /\ convert_html = <<>>
           /\ calls = <<>>
           /\ response = <<>>
    /\ "compare" \in parts =>
           /\ cmp_r = <<>>
           /\ cmp_t = <<>>
           /\ cmp_flags = <<>>
           /\ decision = NoDecision
    /\ "score" \in parts =>
           /\ sc_signals = <<>>
           /\ sc_penalty = 0
           /\ sc_score = -1
    /\ "extract" \in parts =>
           /\ pre_html = <<>>
           /\ pre_out = NoExtraction
    /\ "reinsert" \in parts =>
           /\ rs_markdown = <<>>
           /\ rs_blocks = <<>>
           /\ rs_out = NoReinsertion
    /\ "call" \in parts =>
           /\ fn_args = <<>>
           /\ fn_result = [called |-> FALSE]
    /\ "probe" \in parts =>
           probe = NewProbe

-----------------------------------------------------------------------------
(* SpecCmp: compare_and_decide called on any two candidates, repeatedly    *)
(* with any blocker flags.                                                 *)

InitCmp ==
    LET \* empty; a date and 10 words; 5000 words; 6420 words, which score
        \* 0.0497 above 5000 words;
        \* 12000 words (beyond max_len) with a date after the first 500 characters
        CmpTexts == { <<>>,
                      <<Seg("2024-01-15", 1), Seg("word", 10)>>,
                      <<Seg("word", 5000)>>,
                      <<Seg("word", 6420)>>,
                      <<Seg("word", 12000), Seg("2024-01-15", 1)>> }
        HtmlTokens == HeadingTokens \cup ParagraphTokens \cup ListItemTokens
                          \cup {AbsLinkToken, RelLinkToken}
        CmpHtmls == SeqsUpTo(HtmlTokens, MaxHtml)
        Candidates == [text : CmpTexts, html : CmpHtmls]
    IN  /\ cmp_r \in Candidates
        /\ cmp_t \in Candidates
        /\ cmp_flags = <<>>
        /\ decision = NoDecision
        /\ Idle({"probe", "score", "ingest", "extract", "reinsert", "call"})

CallCompare(flags) ==
    /\ cmp_flags' = flags
    /\ decision' = compare_and_decide(
                       [ readability_text |-> cmp_r.text,
                         readability_html |-> cmp_r.html,
                         trafilatura_text |-> cmp_t.text,
                         trafilatura_html |-> cmp_t.html,
                         title |-> "Test Article",
                         blocker_flags |-> flags ])
    /\ UNCHANGED <<cmp_r, cmp_t, scVars, ingestVars, preVars, reinsVars, fnVars, probeVars>>

\* compare_and_decide is called with any blocker_flags
NextCmp ==
    LET \* the dict of test_compare_and_decide_blocker_penalty
        TestDict == [login_required |-> "True", paywall |-> "False", captcha |-> "False"]
        \* blocker_flags arguments: None, {}, and dicts
        FlagArgs == { <<>>, <<EmptyDict>>, <<TestDict>>,
                      <<ProbeDict({}, "None")>>,
                      <<ProbeDict({}, "Page load timeout")>>,
                      <<ProbeDict({"paywall"}, "None")>>,
                      <<ProbeDict({"content_too_thin"}, "None")>> }
    IN  \E flags \in FlagArgs : CallCompare(flags)

SpecCmp == InitCmp /\ [][NextCmp]_vars

-----------------------------------------------------------------------------
(* SpecScore: score_candidate called on any signal set and penalty.        *)

InitScore ==
    LET Levels == {0, Den \div 4, Den \div 2, Den}
        SignalSets == [ len_norm : Levels, density : Levels, link_quality : Levels,
                        freshness : {0, Den}, structure : {0, 25, 50, 80} ]
        Penalties == {0, 3 * (Den \div 10), Den \div 2, Den}
    IN  /\ sc_signals \in SignalSets
        /\ sc_penalty \in Penalties
        /\ sc_score = -1
        /\ Idle({"probe", "compare", "ingest", "extract", "reinsert", "call"})

CallScore ==
    /\ sc_score = -1
    /\ sc_score' = score_candidate(sc_signals, sc_penalty)
    /\ UNCHANGED <<sc_signals, sc_penalty, cmpVars, ingestVars, preVars, reinsVars, fnVars, probeVars>>

SpecScore == InitScore /\ [][CallScore]_vars

-----------------------------------------------------------------------------
(* ingest_content (main.py) *)

CodeA == "<pre><code>a = 1</code></pre>"
CodeB == "<pre><code>b = 2</code></pre>"
CodeTokens == {CodeA, CodeB}

RECURSIVE SubSeqsOf(_)
SubSeqsOf(s) ==
    IF s = <<>> THEN {<<>>}
    ELSE LET rest == SubSeqsOf(Tail(s))
         IN  rest \cup {<<Head(s)>> \o r : r \in rest}

\* d.get(k)
Get(d, k) == IF k \in DOMAIN d THEN d[k] ELSE "None"

\* the bound of the probe taken inclusively
should_probe_le(char_count) == char_count < 200 \/ char_count <= 500

should_probe(char_count) == char_count < 200 \/ char_count < 500

\* blocker_detected without the captcha flag
blocker_detected_no_captcha(flags) ==
    \/ Truthy(Get(flags, "login_required"))
    \/ Truthy(Get(flags, "paywall"))

blocker_detected(flags) ==
    \/ Truthy(Get(flags, "login_required"))
    \/ Truthy(Get(flags, "paywall"))
    \/ Truthy(Get(flags, "captcha"))

\* the response of the four fallbacks
FallbackResponse(redirected) ==
    [ kind |-> "success",
      chosen |-> "extension",
      score_extension |-> 1000,
      score_trafilatura |-> 0,
      signals |-> [ extension |-> [ len |-> TextLen(request.text_extension),
                                    density |-> 0, overlap |-> 0 ],
                    trafilatura |-> [len |-> 0, density |-> 0, overlap |-> 0] ],
      redirect_detected |-> redirected ]

\* raise HTTPException(status_code=500, ...)
ErrorResponse(e) == [kind |-> "error", status_code |-> 500, detail |-> e]

\* convert_to_markdown(request.html_extension, ...), then return the fallback
Fallback(redirected) ==
    /\ convert_html' = request.html_extension
    /\ calls' = [calls EXCEPT !.convert = @ + 1]
    /\ response' = FallbackResponse(redirected)
    /\ pc' = "done"

InitIngest ==
    LET \* the requests the extension sends
        Requests ==
            { [ title |-> "Example Article",
                html_extension |-> <<"<h2>", "<p>">>,
                text_extension |-> <<Seg("word", 2)>> ],
              [ title |-> "Example Article",
                html_extension |-> <<"<p>", CodeA>>,
                text_extension |-> <<Seg("word", 5000)>> ] }
    IN  /\ pc = "start"
        /\ comparator_impl \in {"real", "stub"}
        /\ request \in Requests
        /\ fetch_result = <<>>
        /\ extraction = <<>>
        /\ blocker_flags = EmptyDict
        /\ comparison = NoDecision
        /\ convert_html = <<>>
        /\ calls = [fetch |-> 0, extract |-> 0, probe |-> 0, compare |-> 0, convert |-> 0]
        /\ response = [kind |-> "none"]
        /\ Idle({"probe", "compare", "score", "extract", "reinsert", "call"})

\* Step 1: fetch_result = fetcher.fetch_url(url)
Fetch ==
    LET \* the pages the fetcher may retrieve
        RawHtmls == { <<"<p>">>, <<"<p>", CodeA>>, <<"<h2>", CodeA, CodeB>> }
        \* what fetcher.fetch_url may return (fetcher.py:62-98)
        FetchResults ==
            { [ success |-> FALSE, was_redirected |-> FALSE, html |-> <<>>,
                error |-> "Request timeout" ] }
            \cup [ success : {TRUE}, was_redirected : BOOLEAN, html : RawHtmls,
                   error : {"None"} ]
    IN  /\ pc = "start"
        /\ fetch_result' \in FetchResults
        /\ calls' = [calls EXCEPT !.fetch = @ + 1]
        /\ pc' = "fetched"
        /\ UNCHANGED <<comparator_impl, request, extraction, blocker_flags,
                       comparison, convert_html, response, cmpVars, scVars, preVars, reinsVars, fnVars, probeVars>>

\* if not fetch_result["success"]: the extension's content is returned
FetchFailed ==
    /\ pc = "fetched"
    /\ ~fetch_result.success
    /\ Fallback(FALSE)
    /\ UNCHANGED <<comparator_impl, request, fetch_result, extraction,
                   blocker_flags, comparison, cmpVars, scVars, preVars, reinsVars, fnVars, probeVars>>

\* if fetch_result.get("was_redirected"): the extension's content is returned
Redirected ==
    /\ pc = "fetched"
    /\ fetch_result.success
    /\ fetch_result.was_redirected
    /\ Fallback(TRUE)
    /\ UNCHANGED <<comparator_impl, request, fetch_result, extraction,
                   blocker_flags, comparison, cmpVars, scVars, preVars, reinsVars, fnVars, probeVars>>

\* Step 2: extraction = extractor.extract_with_trafilatura(html, url)
Extract ==
    LET \* 49, 499, 500 and 24999 characters
        ExtractedTexts == { <<Seg("word", 10)>>,
                            <<Seg("word", 100)>>,
                            <<Seg("word", 99), Seg("hello", 1)>>,
                            <<Seg("word", 5000)>> }
        \* what extractor.extract_with_trafilatura may return for a page: no content,
        \* or a text and an html that keeps some of the page's elements
        ExtractionResults(html) ==
            { [ success |-> FALSE, text |-> <<>>, html |-> <<>>, char_count |-> 0,
                error |-> "Trafilatura returned no content" ] }
            \cup { [ success |-> TRUE, text |-> t, html |-> h,
                     char_count |-> TextLen(t), error |-> "None" ]
                   : t \in ExtractedTexts, h \in SubSeqsOf(html) \ {<<>>} }
    IN  /\ pc = "fetched"
        /\ fetch_result.success
        /\ ~fetch_result.was_redirected
        /\ extraction' \in ExtractionResults(fetch_result.html)
        /\ calls' = [calls EXCEPT !.extract = @ + 1]
        /\ pc' = "extracted"
        /\ UNCHANGED <<comparator_impl, request, fetch_result, blocker_flags,
                       comparison, convert_html, response, cmpVars, scVars, preVars, reinsVars, fnVars, probeVars>>

\* if not extraction["success"]: the extension's content is returned
ExtractionFailed ==
    /\ pc = "extracted"
    /\ ~extraction.success
    /\ Fallback(FALSE)
    /\ UNCHANGED <<comparator_impl, request, fetch_result, extraction,
                   blocker_flags, comparison, cmpVars, scVars, preVars, reinsVars, fnVars, probeVars>>

\* Step 3: if should_probe: blocker_flags = playwright_probe.detect_blockers(url)
Probe ==
    LET \* what playwright_probe.detect_blockers may return
        ProbeResults ==
            { ProbeDict({}, "None"),
              ProbeDict({}, "Page load timeout"),
              ProbeDict({"login_required"}, "None"),
              ProbeDict({"paywall"}, "None"),
              ProbeDict({"captcha"}, "None"),
              ProbeDict({"content_too_thin"}, "None") }
    IN  /\ pc = "extracted"
        /\ extraction.success
        /\ should_probe(extraction.char_count)
        /\ blocker_flags' \in ProbeResults
        /\ calls' = [calls EXCEPT !.probe = @ + 1]
        /\ pc' = "probed"
        /\ UNCHANGED <<comparator_impl, request, fetch_result, extraction,
                       comparison, convert_html, response, cmpVars, scVars, preVars, reinsVars, fnVars, probeVars>>

\* if blocker_detected: the extension's content is returned
BlockerDetected ==
    /\ pc = "probed"
    /\ blocker_detected(blocker_flags)
    /\ Fallback(FALSE)
    /\ UNCHANGED <<comparator_impl, request, fetch_result, extraction,
                   blocker_flags, comparison, cmpVars, scVars, preVars, reinsVars, fnVars, probeVars>>

\* the keyword arguments of the handler's call (main.py:260-267)
IngestKwargs ==
    [ extension_text |-> request.text_extension,
      extension_html |-> request.html_extension,
      trafilatura_text |-> extraction.text,
      trafilatura_html |-> extraction.html,
      title |-> request.title,
      blocker_flags |-> <<blocker_flags>> ]

\* Step 4: comparison = comparator.compare_and_decide(extension_text=..., ...)
Compare ==
    LET \* the comparator of tests/test_routes.py: lambda **kw: {...}
        StubDecisions ==
            { [ raised |-> "", chosen |-> "trafilatura",
                score_extension |-> 550, score_trafilatura |-> 900,
                signals_extension |-> [len |-> 1000, density |-> 500, overlap |-> 800],
                signals_trafilatura |-> [len |-> 1200, density |-> 600, overlap |-> 900] ],
              [ raised |-> "", chosen |-> "extension",
                score_extension |-> 950, score_trafilatura |-> 400,
                signals_extension |-> [len |-> 2000, density |-> 700, overlap |-> 950],
                signals_trafilatura |-> [len |-> 1200, density |-> 600, overlap |-> 700] ] }
    IN  /\ \/ pc = "extracted" /\ extraction.success
              /\ ~should_probe(extraction.char_count)
           \/ pc = "probed" /\ ~blocker_detected(blocker_flags)
        /\ \/ comparator_impl = "real"
              /\ comparison' = compare_and_decide(IngestKwargs)
           \/ comparator_impl = "stub"
              /\ comparison' \in StubDecisions
        /\ calls' = [calls EXCEPT !.compare = @ + 1]
        /\ pc' = "compared"
        /\ UNCHANGED <<comparator_impl, request, fetch_result, extraction,
                       blocker_flags, convert_html, response, cmpVars, scVars, preVars, reinsVars, fnVars, probeVars>>

\* the call raised: except Exception -> HTTPException(500)
CompareRaised ==
    /\ pc = "compared"
    /\ comparison.raised # ""
    /\ response' = ErrorResponse(comparison.raised)
    /\ pc' = "done"
    /\ UNCHANGED <<comparator_impl, request, fetch_result, extraction,
                   blocker_flags, comparison, convert_html, calls,
                   cmpVars, scVars, preVars, reinsVars, fnVars, probeVars>>

\* html_with_code = extraction["html"] if comparison["chosen"] == "trafilatura"
\*                  else request.html_extension
html_with_code ==
    IF comparison.chosen = "trafilatura" THEN extraction.html
    ELSE request.html_extension

\* Step 5: markdown = extractor.convert_to_markdown(html_with_code, ...)
\* (steps 6 and 7 rewrite the markdown only)
Convert ==
    /\ pc = "compared"
    /\ comparison.raised = ""
    /\ IF "chosen" \in DOMAIN comparison
       THEN /\ convert_html' = html_with_code
            /\ calls' = [calls EXCEPT !.convert = @ + 1]
            /\ pc' = "converted"
            /\ UNCHANGED response
       ELSE /\ response' = ErrorResponse("KeyError")
            /\ pc' = "done"
            /\ UNCHANGED <<convert_html, calls>>
    /\ UNCHANGED <<comparator_impl, request, fetch_result, extraction,
                   blocker_flags, comparison, cmpVars, scVars, preVars, reinsVars, fnVars, probeVars>>

\* Step 8: return SuccessResponse(chosen=chosen, ..., diagnostics={...})
Respond ==
    /\ pc = "converted"
    /\ response' =
         LET \* the keys the handler reads from the decision (main.py:287-307)
             KeysRead == {"chosen", "score_extension", "score_trafilatura",
                          "signals_extension", "signals_trafilatura"}
             \* SuccessResponse.chosen: Literal["extension", "trafilatura"] (schemas.py)
             ChosenLiteral == {"extension", "trafilatura"}
         IN
         IF ~(KeysRead \subseteq DOMAIN comparison)
         THEN ErrorResponse("KeyError")
         ELSE IF comparison.chosen \notin ChosenLiteral
         THEN ErrorResponse("ValidationError")
         ELSE [ kind |-> "success",
                chosen |-> comparison.chosen,
                score_extension |-> comparison.score_extension,
                score_trafilatura |-> comparison.score_trafilatura,
                signals |-> [ extension |-> comparison.signals_extension,
                              trafilatura |-> comparison.signals_trafilatura ],
                redirect_detected |-> FALSE ]
    /\ pc' = "done"
    /\ UNCHANGED <<comparator_impl, request, fetch_result, extraction,
                   blocker_flags, comparison, convert_html, calls,
                   cmpVars, scVars, preVars, reinsVars, fnVars, probeVars>>

Next ==
    \/ Fetch
    \/ FetchFailed
    \/ Redirected
    \/ Extract
    \/ ExtractionFailed
    \/ Probe
    \/ BlockerDetected
    \/ Compare
    \/ CompareRaised
    \/ Convert
    \/ Respond

Spec == InitIngest /\ [][Next]_vars

-----------------------------------------------------------------------------
(* SpecPre: extract_code_blocks called on any document.                    *)

InitPre ==
    LET \* the code of a block: one line, or two lines
        Contents ==
            { <<"p", "r", "i", "n", "t", "(", "1", ")">>,
              <<"i", "m", "p", "o", "r", "t", " ", "o", "s", "\n", "o", "s", ".", "g", "e", "t", "c", "w", "d", "(", ")">> }
        \* one top-level region of a document, of a shape the tests use:
        \*   "p"         <p>Some text</p>
        \*   "pre>code"  <pre><code>c</code></pre>
        \*   "pre"       <pre>c</pre>
        \*   "code"      <code>npm</code>
        \*   "direct"    <div class="language-python"><pre><code>c</code></pre></div>
        \*   "nested"    <div class="theme-code-block"><div class="codeBlockContent">
        \*                 <pre><code>c</code></pre></div></div>
        \*   "framework" the document of test_docusaurus_theme_code_block, without
        \*               its whitespace
        \*   "inline"    <code class="language-bash">pip install requests</code>
        \*   "blank"     <code>\n</code>
        \*   "empty"     <pre><code></code></pre>
        \*   "pre>pre"   <pre><pre><code>nested</code></pre></pre>
        Region(shape, c) ==
            LET PreCode == Elem("pre", <<>>, <<Elem("code", <<>>, <<TextNode(c)>>)>>)
                Docusaurus(inner) ==
                    Elem("div", <<<<"t", "h", "e", "m", "e", "-", "c", "o", "d", "e", "-", "b", "l", "o", "c", "k">>>>,
                         <<Elem("div", <<<<"c", "o", "d", "e", "B", "l", "o", "c", "k", "C", "o", "n", "t", "e", "n", "t">>>>, <<inner>>)>>)
            IN  CASE shape = "p" -> Elem("p", <<>>, <<TextNode(<<"S", "o", "m", "e", " ", "t", "e", "x", "t">>)>>)
                  [] shape = "pre>code" -> PreCode
                  [] shape = "pre" -> Elem("pre", <<>>, <<TextNode(c)>>)
                  [] shape = "code" -> Elem("code", <<>>, <<TextNode(<<"n", "p", "m">>)>>)
                  [] shape = "direct" -> Elem("div", <<<<"l", "a", "n", "g", "u", "a", "g", "e", "-", "p", "y", "t", "h", "o", "n">>>>, <<PreCode>>)
                  [] shape = "nested" -> Docusaurus(PreCode)
                  [] shape = "inline" ->
                         Elem("code", <<<<"l", "a", "n", "g", "u", "a", "g", "e", "-", "b", "a", "s", "h">>>>, <<TextNode(<<"p", "i", "p", " ", "i", "n", "s", "t", "a", "l", "l", " ", "r", "e", "q", "u", "e", "s", "t", "s">>)>>)
                  [] shape = "blank" -> Elem("code", <<>>, <<TextNode(<<"\n">>)>>)
                  [] shape = "empty" -> Elem("pre", <<>>, <<Elem("code", <<>>, <<>>)>>)
                  [] shape = "pre>pre" ->
                         Elem("pre", <<>>, <<Elem("pre", <<>>, <<Elem("code", <<>>, <<TextNode(<<"n", "e", "s", "t", "e", "d">>)>>)>>)>>)
                  [] shape = "framework" ->
                         Docusaurus(Elem("span", <<>>, <<TextNode(<<"c", "o", "n", "s", "o", "l", "e", ".", "l", "o", "g", "(", "'", "t", "e", "s", "t", "'", ")", ";">>)>>))
        Regions ==
            { Region(shape, c) : shape \in {"p", "pre>code", "pre", "code", "direct", "nested", "framework",
                                           "inline", "blank", "empty", "pre>pre"},
                                 c \in Contents }
        Documents == SeqsUpTo(Regions, MaxRegions)
    IN  /\ pre_html \in Documents
        /\ pre_out = NoExtraction
        /\ Idle({"probe", "compare", "score", "ingest", "reinsert", "call"})

ExtractCodeBlocks ==
    /\ ~pre_out.called
    /\ pre_out' = [ called |-> TRUE,
                    raised |-> extract_code_blocks(pre_html).raised,
                    html |-> extract_code_blocks(pre_html).html,
                    blocks |-> extract_code_blocks(pre_html).blocks ]
    /\ UNCHANGED <<pre_html, cmpVars, scVars, ingestVars, reinsVars, fnVars, probeVars>>

SpecPre == InitPre /\ [][ExtractCodeBlocks]_vars

-----------------------------------------------------------------------------
(* SpecReins: reinsert_code_blocks called on any block list and a markdown *)
(* text that holds the placeholder of every block, or of all but one.      *)

InitReins ==
    LET \* the block with index i of a list of one kind
        SampleBlock(kind, i) ==
            IF kind = "plain"
            THEN CodeBlock(<<"c", "o", "d", "e", " ">> \o IntToStr(i), Str.text, FALSE, FALSE, SemanticMeta("pre"))
            ELSE IF kind = "python"
            THEN CodeBlock(<<"x", " ", "=", " ">> \o IntToStr(i), Str.python, FALSE, FALSE, SemanticMeta("pre>code"))
            ELSE IF kind = "numbered"
            THEN CodeBlock(<<"1", "a", " ", "=", " ">> \o IntToStr(i) \o <<"\n", "2", "b", " ", "=", " ", "a">>, Str.python, FALSE, TRUE, SemanticMeta("pre>code"))
            ELSE IF kind = "quoting"
            THEN CodeBlock(<<"e", "c", "h", "o", " ">> \o PlaceholderToken(i + 1), Str.text, FALSE, FALSE, SemanticMeta("pre"))
            ELSE CodeBlock(<<"$", " ", "n", "p", "m", " ", "i", "n", "s", "t", "a", "l", "l", " ", "p", "k", "g">> \o IntToStr(i), Str.bash, TRUE, FALSE, SemanticMeta("pre>code"))
        \* "quoting": the code of every block names the token of the next block
        BlockLists ==
            { [i \in 1..n |-> SampleBlock(kind, i - 1)] : n \in 1..MaxBlocks, kind \in {"plain", "python", "numbered", "terminal", "quoting"} }
        \* a markdown text that holds the placeholders of n blocks: one per line in
        \* ascending order, one per line in descending order, or on one line; or a
        \* text that has lost the token of the first, the second or the last block
        Markdown(layout, n) ==
            LET ascending == [i \in 1..n |-> PlaceholderToken(i - 1)]
                descending == [i \in 1..n |-> PlaceholderToken(n - i)]
                without(k) == <<"T", "e", "x", "t", "\n">>
                                  \o join(<<"\n">>, SelectSeq(ascending, LAMBDA t : t # PlaceholderToken(k)))
                                  \o <<"\n", "E", "n", "d">>
            IN  IF layout = "without first" THEN without(0)
                ELSE IF layout = "without second" THEN without(1)
                ELSE IF layout = "without last" THEN without(n - 1)
                ELSE IF layout = "ascending"
                THEN <<"T", "e", "x", "t", "\n">> \o join(<<"\n", "M", "i", "d", "d", "l", "e", "\n">>, ascending) \o <<"\n", "E", "n", "d">>
                ELSE IF layout = "descending"
                THEN <<"T", "e", "x", "t", "\n">> \o join(<<"\n", "\n">>, descending) \o <<"\n", "E", "n", "d">>
                ELSE join(<<" ">>, ascending)
    IN  /\ rs_blocks \in BlockLists
        /\ rs_markdown \in {Markdown(layout, Len(rs_blocks)) : layout \in {"ascending", "descending", "one line", "without first", "without second", "without last"}}
        /\ rs_out = NoReinsertion
        /\ Idle({"probe", "compare", "score", "ingest", "extract", "call"})

ReinsertCodeBlocks ==
    /\ ~rs_out.called
    /\ rs_out' = [ called |-> TRUE,
                   result |-> reinsert_code_blocks(rs_markdown, rs_blocks) ]
    /\ UNCHANGED <<rs_markdown, rs_blocks, cmpVars, scVars, ingestVars, preVars, fnVars, probeVars>>

SpecReins == InitReins /\ [][ReinsertCodeBlocks]_vars

-----------------------------------------------------------------------------
(* SpecOverlap: semantic_overlap called on any two texts of a few words.   *)

\* the largest number of words of a text handed to semantic_overlap
MaxWords == 4

\* the texts of up to MaxWords words: a word in two spellings, and a
\* second word
OverlapTexts ==
    LET OverlapWords == {"the", "The", "word"}
    IN  { [i \in 1..Len(ws) |-> Seg(ws[i], 1)] : ws \in SeqsUpTo(OverlapWords, MaxWords) }

InitOverlap ==
    /\ fn_args \in [text_a : OverlapTexts, text_b : OverlapTexts]
    /\ fn_result = [called |-> FALSE]
    /\ Idle({"probe", "compare", "score", "ingest", "extract", "reinsert"})

CallOverlap ==
    /\ fn_result' = [called |-> TRUE,
                     value |-> semantic_overlap(fn_args.text_a, fn_args.text_b)]
    /\ UNCHANGED <<fn_args, cmpVars, scVars, ingestVars, preVars, reinsVars, probeVars>>

SpecOverlap == InitOverlap /\ [][CallOverlap]_vars

-----------------------------------------------------------------------------
(* FetcherTool.fetch_url (src/agent/src/tools/fetcher.py).  A url is the   *)
(* record [scheme, host, path, query] of its parts, host, path and query   *)
(* being strings of characters.                                           *)

\* httpx.URL(url): the host in lower case, the empty path as the root path
URL(url) ==
    [url EXCEPT !.host = str_lower(url.host),
                !.path = IF url.path = <<>> THEN <<"/">> ELSE url.path]

\* normalize_url without removeprefix
normalize_url_keep_www(u) ==
    << IF u.host # <<>> THEN str_lower(u.host) ELSE <<>>,
       IF u.path # <<"/">> THEN rstrip(u.path, {"/"}) ELSE <<"/">> >>

\* normalize_url of fetch_url: (domain, path)
normalize_url(u) ==
    LET www == <<"w", "w", "w", ".">>
        lowered == str_lower(u.host)
        domain == IF u.host # <<>>
                  THEN IF StartsAt(lowered, 1, www)
                       THEN SubSeq(lowered, Len(www) + 1, Len(lowered))
                       ELSE lowered
                  ELSE <<>>
        path == IF u.path # <<"/">> THEN rstrip(u.path, {"/"}) ELSE <<"/">>
    IN  <<domain, path>>

\* FetcherTool.fetch_url(url); client.get(url) returns the response got, or
\* raises got.raised
fetch_url(url, got) ==
    IF got.raised = ""
    THEN [ html |-> got.text,
           status_code |-> got.status_code,
           content_type |-> got.content_type,
           final_url |-> got.url,
           original_url |-> url,
           was_redirected |-> normalize_url(URL(url)) # normalize_url(got.url),
           success |-> TRUE,
           error |-> "None" ]
    ELSE [ html |-> "",
           status_code |-> 0,
           content_type |-> "",
           final_url |-> url,
           success |-> FALSE,
           error |-> CASE got.raised = "TimeoutException" -> "Request timeout"
                       [] got.raised = "HTTPError" -> "HTTP error: "
                       [] OTHER -> "Unexpected error: " ]

UrlOf(parts) ==
    [ scheme |-> parts.scheme,
      host |-> parts.www \o parts.site,
      path |-> IF parts.page = <<>>
               THEN IF parts.slash THEN <<"/">> ELSE <<>>
               ELSE <<"/">> \o parts.page \o (IF parts.slash THEN <<"/">> ELSE <<>>),
      query |-> parts.query ]

InitFetchUrl ==
    LET \* the urls of tests/test_redirect_detection.py and their combinations: a
        \* url is written from a scheme, an optional www. prefix, a site, a page,
        \* an optional trailing slash and an optional query
        UrlParts ==
            [ scheme : {"http", "https"},
              www : {<<>>, <<"w", "w", "w", ".">>},
              site : { <<"e", "x", "a", "m", "p", "l", "e", ".", "c", "o", "m">>,
                       <<"E", "x", "a", "m", "p", "l", "e", ".", "C", "O", "M">>,
                       <<"b", "l", "o", "g", ".", "e", "x", "a", "m", "p", "l", "e", ".", "c", "o", "m">>,
                       <<"o", "t", "h", "e", "r", ".", "c", "o", "m">> },
              page : {<<>>, <<"a", "r", "t", "i", "c", "l", "e">>, <<"l", "o", "g", "i", "n">>},
              slash : BOOLEAN,
              query : {<<>>, <<"u", "t", "m", "_", "s", "o", "u", "r", "c", "e", "=", "t", "w", "i", "t", "t", "e", "r">>} ]
        \* what client.get returns for a url: a response from a final url, or an
        \* exception
        Responses(final) ==
            { [ raised |-> "", url |-> URL(UrlOf(final)), text |-> "<html>",
                status_code |-> 200, content_type |-> "text/html" ] }
                \cup { [raised |-> e] : e \in {"TimeoutException", "HTTPError", "Exception"} }
    IN  /\ \E u \in UrlParts, f \in UrlParts : \E r \in Responses(f) :
               /\ r.raised # "" => f = u
               /\ fn_args = [url |-> u, final |-> f, response |-> r]
        /\ fn_result = [called |-> FALSE]
        /\ Idle({"probe", "compare", "score", "ingest", "extract", "reinsert"})

CallFetchUrl ==
    /\ fn_result' = [called |-> TRUE,
                     value |-> fetch_url(UrlOf(fn_args.url), fn_args.response)]
    /\ UNCHANGED <<fn_args, cmpVars, scVars, ingestVars, preVars, reinsVars, probeVars>>

SpecFetchUrl == InitFetchUrl /\ [][CallFetchUrl]_vars

-----------------------------------------------------------------------------
(* SpecToMarkdown: CodeBlock.to_markdown called on a block of a few lines. *)

\* the largest number of lines of the content of a block
MaxLines == 3

InitToMarkdown ==
    LET \* the lines of tests/test_preprocessor.py, with and without a prompt, a
        \* prompt after leading whitespace, a doubled prompt and a blank line
        ContentLines ==
            { <<"n", "p", "m", " ", "i", "n", "s", "t", "a", "l", "l">>,
              <<"$", " ", "c", "d", " ", "p", "r", "o", "j", "e", "c", "t">>,
              <<" ", " ", "$", " ", "l", "s">>,
              <<"$", "$", " ", "m", "a", "k", "e">>,
              <<" ">> }
    IN  /\ \E lines \in SeqsUpTo(ContentLines, MaxLines) \ {<<>>} :
           \E language \in {Str.text, Str.python, Str.bash} :
           \E is_terminal \in BOOLEAN :
               fn_args = [ lines |-> lines,
                           block |-> CodeBlock(join(<<"\n">>, lines), language,
                                               is_terminal, FALSE, SemanticMeta("pre")) ]
        /\ fn_result = [called |-> FALSE]
        /\ Idle({"probe", "compare", "score", "ingest", "extract", "reinsert"})

CallToMarkdown ==
    /\ fn_result' = [called |-> TRUE, value |-> to_markdown(fn_args.block)]
    /\ UNCHANGED <<fn_args, cmpVars, scVars, ingestVars, preVars, reinsVars, probeVars>>

SpecToMarkdown == InitToMarkdown /\ [][CallToMarkdown]_vars

-----------------------------------------------------------------------------
(* SpecInject: the blocks of an extraction, marked by _has_line_numbers,   *)
(* handed to inject_code_into_html with an extracted html, and rendered    *)
(* by to_markdown as reinsert_code_blocks renders them.                    *)

InitInject ==
    LET \* lines of code: numbered, not numbered, numbered after a blank, blank
        NumberedLines ==
            { <<"1", "i", "m", "p", "o", "r", "t", " ", "o", "s">>,
              <<"2">>,
              <<"1", "0", "x", " ", "=", " ", "1">>,
              <<"x", " ", "=", " ", "2">>,
              <<" ", "3", "y">>,
              <<" ">> }
        \* the block the semantic pass records for a content
        Extracted(content, language) ==
            CodeBlock(content, language, FALSE, _has_line_numbers(content),
                      SemanticMeta("pre>code"))
        \* the blocks after the first one
        Rest ==
            { <<>>,
              <<Extracted(<<"p", "r", "i", "n", "t", "(", "1", ")">>, <<>>)>>,
              <<Extracted(<<"1", "a", "\n", "2", "b">>, Str.bash)>> }
        SomeText == Elem("p", <<>>, <<TextNode(<<"S", "o", "m", "e", " ", "t", "e", "x", "t">>)>>)
        \* the html of the extraction: empty, without a body, with a body,
        \* with content after the body
        ExtractedHtmls ==
            { <<>>,
              <<SomeText>>,
              <<Elem("html", <<>>, <<Elem("body", <<>>, <<SomeText>>)>>)>>,
              <<Elem("body", <<>>, <<>>), SomeText>> }
    IN  /\ \E lines \in SeqsUpTo(NumberedLines, MaxLines) :
           \E language \in {Str.python, Str.text} :
           \E rest \in Rest :
           \E html \in ExtractedHtmls :
               fn_args = [ lines |-> lines,
                           html |-> html,
                           blocks |-> IF lines = <<>> THEN <<>>
                                      ELSE <<Extracted(join(<<"\n">>, lines), language)>> \o rest ]
        /\ fn_result = [called |-> FALSE]
        /\ Idle({"probe", "compare", "score", "ingest", "extract", "reinsert"})

CallInject ==
    /\ fn_result' = [ called |-> TRUE,
                      value |-> inject_code_into_html(fn_args.html, fn_args.blocks),
                      markdown |-> [i \in 1..Len(fn_args.blocks) |->
                                       to_markdown(fn_args.blocks[i])] ]
    /\ UNCHANGED <<fn_args, cmpVars, scVars, ingestVars, preVars, reinsVars, probeVars>>

SpecInject == InitInject /\ [][CallInject]_vars

-----------------------------------------------------------------------------
(* SpecPost: step 7 of ingest_content, normalize_links and then            *)
(* clean_markdown, on a markdown text of prose lines and fenced blocks.    *)

\* the largest number of parts (prose lines, fenced blocks) of the text
MaxParts == 3

InitPost ==
    LET \* prose: a line with a link, a blank line, a line of text
        Prose == { <<"S", "e", "e", " ", "[", "d", "o", "c", "s", "]", "(", "/", "d", "o", "c", "s", "?", "r", "e", "f", "=", "x", "&", "i", "d", "=", "1", ")">>,
                   <<>>,
                   <<"T", "e", "x", "t">> }
        \* code: plain; an index followed by a call, a[b](c); two blank
        \* lines; the same form with an anchor in the parentheses; one
        \* blank line
        Codes == { <<"y", " ", "=", " ", "1">>,
                   <<"x", " ", "=", " ", "a", "[", "b", "]", "(", "c", ")">>,
                   <<"a", "\n", "\n", "\n", "b">>,
                   <<"m", "[", "k", "]", "(", "#", "v", ")">>,
                   <<"a", "\n", "\n", "b">> }
        Parts ==
            { [kind |-> "prose", text |-> t] : t \in Prose }
                \cup { [kind |-> "fence",
                        text |-> fence \o Str.python \o <<"\n">> \o c \o <<"\n">> \o fence] : c \in Codes }
    IN  /\ \E parts \in SeqsUpTo(Parts, MaxParts) \ {<<>>} :
           \E url \in { <<"h", "t", "t", "p", "s", ":", "/", "/", "e", "x", "a", "m", "p", "l", "e", ".", "c", "o", "m", "/", "a", "/", "b">>,
                         <<"h", "t", "t", "p", "s", ":", "/", "/", "e", "x", "a", "m", "p", "l", "e", ".", "c", "o", "m">> } :
               fn_args = [ parts |-> parts,
                           markdown |-> join(<<"\n">>, [i \in 1..Len(parts) |-> parts[i].text]),
                           url |-> url ]
        /\ fn_result = [called |-> FALSE]
        /\ Idle({"probe", "compare", "score", "ingest", "extract", "reinsert"})

CallPost ==
    /\ fn_result' = [ called |-> TRUE,
                      value |-> clean_markdown(normalize_links(fn_args.markdown, fn_args.url)) ]
    /\ UNCHANGED <<fn_args, cmpVars, scVars, ingestVars, preVars, reinsVars, probeVars>>

SpecPost == InitPost /\ [][CallPost]_vars

-----------------------------------------------------------------------------
(* SpecFixFragments: fix_fragmented_code_blocks called on a markdown text  *)
(* that holds numbered lines of code in backticks, all the lines in one    *)
(* span or every line in a span of its own.                                *)

\* the largest number of numbered lines of the markdown text
MaxFragments == 2

InitFixFragments ==
    LET \* the line numbers and the code of the lines of the text
        FragmentLines ==
            [ no   : { <<"1">>, <<"1", "2">> },
              code : { <<"i", "m", "p", "o", "r", "t", " ", "o", "s">>, <<"o", "s", ".", "g", "e", "t", "c", "w", "d", "(", ")">>, <<"x", " ", "=", " ", "1">>, <<>> } ]
        \* the text around the numbered lines
        FragmentContext == { <<>>, <<"S", "o", "m", "e", " ", "t", "e", "x", "t">> }
        \* the markdown text of numbered lines: "span" wraps all the lines in one
        \* pair of backticks, "spans" wraps every line in its own; and the texts
        \* that hold no numbered span: "inline" is a span of the lines without
        \* their numbers, "between" the first numbered line between the spans
        \* `a` and `c`, "fenced" a fenced block whose content is the span
        FragmentText(shape, lines, before, after) ==
            LET numbered == [i \in 1..Len(lines) |-> lines[i].no \o lines[i].code]
                wrapped  == [i \in 1..Len(lines) |-> <<BACKTICK>> \o numbered[i] \o <<BACKTICK>>]
                code     == [i \in 1..Len(lines) |-> lines[i].code]
                span     == <<BACKTICK>> \o join(<<"\n">>, numbered) \o <<BACKTICK>>
            IN  before
                  \o (CASE shape = "span" -> span
                        [] shape = "spans" -> join(<<"\n">>, wrapped)
                        [] shape = "inline" ->
                               <<BACKTICK>> \o join(<<"\n">>, code) \o <<BACKTICK>>
                        [] shape = "between" ->
                               <<BACKTICK, "a", BACKTICK>> \o numbered[1] \o <<BACKTICK, "c", BACKTICK>>
                        [] shape = "fenced" ->
                               fence \o Str.bash \o <<"\n">> \o span \o <<"\n">> \o fence)
                  \o after
    IN  /\ \E shape \in {"span", "spans", "inline", "between", "fenced"} :
           \E lines \in SeqsUpTo(FragmentLines, MaxFragments) \ {<<>>} :
           \E before, after \in FragmentContext :
               fn_args = [ shape |-> shape, lines |-> lines,
                           before |-> before, after |-> after,
                           markdown |-> FragmentText(shape, lines, before, after) ]
        /\ fn_result = [called |-> FALSE]
        /\ Idle({"probe", "compare", "score", "ingest", "extract", "reinsert"})

CallFixFragments ==
    /\ fn_result' = [called |-> TRUE,
                     value |-> fix_fragmented_code_blocks(fn_args.markdown)]
    /\ UNCHANGED <<fn_args, cmpVars, scVars, ingestVars, preVars, reinsVars, probeVars>>

SpecFixFragments == InitFixFragments /\ [][CallFixFragments]_vars

-----------------------------------------------------------------------------
(* ExtractorTool.convert_to_markdown (src/agent/src/tools/extractor.py).   *)
(* An html argument is [type |-> "NoneType"] or [type |-> "str", value |-> *)
(* the characters].  BeautifulSoup, markdownify and re are libraries: what *)
(* they return and whether one of them raises is the record lib, [raises   *)
(* |-> the step that raises or "", message |-> str(e), markdown |-> the    *)
(* markdown after the markers are replaced, timestamp |-> the time].       *)

\* the length of the preview of the fallback
PreviewLen == 1000

\* convert_to_markdown without the try around the test of the html
convert_to_markdown_unguarded(html, title, url, include_metadata, lib) ==
    IF html.type = "NoneType" \/ html.value = <<>>
    THEN [raised |-> TRUE]
    ELSE [raised |-> FALSE, markdown |-> lib.markdown]

\* the result is [raised |-> FALSE, markdown |-> the text returned]; the
\* except clause takes every exception of the try block.
convert_to_markdown(html, title, url, include_metadata, lib) ==
    LET is_str == html.type = "str"
        e == IF html.type = "NoneType" \/ html.value = <<>>
             THEN [raised |-> TRUE, str |-> <<"N", "o", " ", "H", "T", "M", "L", " ", "c", "o", "n", "t", "e", "n", "t", " ", "p", "r", "o", "v", "i", "d", "e", "d">>]
             ELSE IF lib.raises # ""
             THEN [raised |-> TRUE, str |-> lib.message]
             ELSE [raised |-> FALSE]
        header == <<"#", " ">> \o title \o <<"\n", "\n", "*", "*", "S", "o", "u", "r", "c", "e", "*", "*", ":", " ">> \o url \o <<" ", " ", "\n", "*", "*", "C", "a", "p", "t", "u", "r", "e", "d", "*", "*", ":", " ">> \o lib.timestamp \o <<"\n", "\n", "-", "-", "-", "\n", "\n">>
        safe_preview == IF ~is_str THEN <<>>
                        ELSE SubSeq(html.value, 1, Min(PreviewLen, Len(html.value)))
                                 \o <<".", ".", ".">>
    IN  IF ~e.raised
        THEN [raised |-> FALSE,
              markdown |-> IF include_metadata THEN header \o strip(lib.markdown)
                           ELSE lib.markdown]
        ELSE [raised |-> FALSE,
              markdown |-> <<"#", " ">> \o title \o <<"\n", "\n", "*", "*", "S", "o", "u", "r", "c", "e", "*", "*", ":", " ">> \o url \o <<" ", " ", "\n", "*", "*", "E", "r", "r", "o", "r", "*", "*", ":", " ", "F", "a", "i", "l", "e", "d", " ", "t", "o", " ", "c", "o", "n", "v", "e", "r", "t", " ", "t", "o", " ", "M", "a", "r", "k", "d", "o", "w", "n", ":", " ">> \o e.str \o <<"\n", "\n">> \o fence \o <<"\n">> \o safe_preview \o <<"\n">> \o fence \o <<"\n">>]

InitConvert ==
    LET \* the html arguments: None, the empty string, a short document
        \* (tests/test_extractor.py), and texts about as long as the preview
        HtmlArguments ==
            { [type |-> "NoneType"] }
              \cup { [type |-> "str", value |-> v] :
                         v \in { <<>>, <<"<", "h", "1", ">", "M", "a", "i", "n", " ", "T", "i", "t", "l", "e", "<", "/", "h", "1", ">">> }
                               \cup { [i \in 1..n |-> IF i > PreviewLen THEN "z" ELSE "a"] :
                                          n \in {PreviewLen - 1, PreviewLen, PreviewLen + 1,
                                                 PreviewLen + 200} } }
        \* what the libraries do in one call: the step that raises, if any, with
        \* the text of its exception, and the markdown and the time they return
        LibraryOutcomes ==
            [ raises    : {"", "BeautifulSoup", "_extract_language_from_classes", "md", "re.sub"},
              message   : { <<>>, <<"m", "a", "x", "i", "m", "u", "m", " ", "r", "e", "c", "u", "r", "s", "i", "o", "n", " ", "d", "e", "p", "t", "h", " ", "e", "x", "c", "e", "e", "d", "e", "d">> },
              markdown  : { <<"#", " ", "M", "a", "i", "n", " ", "T", "i", "t", "l", "e", "\n">> },
              timestamp : { <<"2", "0", "2", "5", "-", "0", "1", "-", "0", "1", " ", "0", "0", ":", "0", "0", ":", "0", "0", " ", "U", "T", "C">> } ]
    IN  /\ \E html \in HtmlArguments :
           \E title \in { <<>>, <<"T", "e", "s", "t">> } :
           \E include_metadata \in BOOLEAN :
           \E lib \in LibraryOutcomes :
               fn_args = [ html |-> html, title |-> title,
                           url |-> <<"h", "t", "t", "p", "s", ":", "/", "/", "e", "x", "a", "m", "p", "l", "e", ".", "c", "o", "m">>,
                           include_metadata |-> include_metadata, lib |-> lib ]
        /\ fn_result = [called |-> FALSE]
        /\ Idle({"probe", "compare", "score", "ingest", "extract", "reinsert"})

CallConvert ==
    /\ fn_result' = [called |-> TRUE,
                     value |-> convert_to_markdown(fn_args.html, fn_args.title,
                                   fn_args.url, fn_args.include_metadata, fn_args.lib)]
    /\ UNCHANGED <<fn_args, cmpVars, scVars, ingestVars, preVars, reinsVars, probeVars>>

SpecConvert == InitConvert /\ [][CallConvert]_vars

-----------------------------------------------------------------------------
(* SpecClassify: the two classifiers of markup,                            *)
(* PreprocessorTool._detect_language_from_tag and                          *)
(* ExtractorTool._extract_language_from_classes, called on a code element  *)
(* whose class is a prefix and a language name.                            *)

InitClassify ==
    LET \* the prefixes of a class that names a language
        ClassPrefixes ==
            { <<"l", "a", "n", "g", "u", "a", "g", "e", "-">>, <<"l", "a", "n", "g", "-">>, <<"h", "l", "j", "s", "-">>, <<"p", "r", "i", "s", "m", "-">> }
        \* the language names of tests/test_extractor.py and
        \* tests/test_preprocessor.py, short and long, in lower and upper case
        ClassSuffixes ==
            { <<"j", "s">>,
              <<"J", "S">>,
              <<"j", "a", "v", "a", "s", "c", "r", "i", "p", "t">>,
              <<"j", "s", "x">>,
              <<"p", "y">>,
              <<"p", "y", "t", "h", "o", "n">>,
              <<"P", "y", "t", "h", "o", "n">>,
              <<"p", "y", "t", "h", "o", "n", "3">>,
              <<"t", "s">>,
              <<"t", "y", "p", "e", "s", "c", "r", "i", "p", "t">>,
              <<"s", "h">>,
              <<"s", "h", "e", "l", "l">>,
              <<"z", "s", "h">>,
              <<"f", "i", "s", "h">>,
              <<"b", "a", "s", "h">>,
              <<"y", "m", "l">>,
              <<"y", "a", "m", "l">>,
              <<"g", "o", "l", "a", "n", "g">>,
              <<"g", "o">>,
              <<"r", "s">>,
              <<"r", "u", "s", "t">>,
              <<"r", "b">>,
              <<"r", "u", "b", "y">>,
              <<"h", "t", "m", "l">>,
              <<"c", "p", "p">>,
              <<"s", "q", "l">> }
        \* the code element <code class="...">npm</code> of a document
        CodeElement(class) == BeautifulSoup(<<Elem("code", <<class>>, <<TextNode(<<"n", "p", "m">>)>>)>>)
    IN  /\ \E prefix \in ClassPrefixes : \E suffix \in ClassSuffixes :
               fn_args = [prefix |-> prefix, suffix |-> suffix, tree |-> CodeElement(prefix \o suffix)]
        /\ fn_result = [called |-> FALSE]
        /\ Idle({"probe", "compare", "score", "ingest", "extract", "reinsert"})

\* the code element is node 2 of the tree, node 1 being the document
CallClassify ==
    /\ fn_result' = [called |-> TRUE,
                     value |-> [ tag     |-> _detect_language_from_tag(fn_args.tree, 2),
                                 classes |-> _extract_language_from_classes(fn_args.tree, 2) ]]
    /\ UNCHANGED <<fn_args, cmpVars, scVars, ingestVars, preVars, reinsVars, probeVars>>

SpecClassify == InitClassify /\ [][CallClassify]_vars

-----------------------------------------------------------------------------
(* SpecProbe: detect_blockers and close called on one tool, one call at a  *)
(* time, with any outcome of every library call.                           *)

Outcomes == {"ok", "TimeoutError", "Error"}

InitProbe ==
    /\ probe = NewProbe
    /\ Idle({"compare", "score", "ingest", "extract", "reinsert", "call"})

\* detect_blockers is called: lines 43-54
DetectBlockers ==
    /\ probe.pc = "idle"
    /\ probe.calls < MaxProbes
    /\ probe' = [probe EXCEPT !.pc = "get_browser", !.calls = @ + 1,
                              !.browser = 0, !.page = 0, !.seen = NoPage,
                              !.flags = [true |-> {}, error |-> "None"]]
    /\ UNCHANGED <<cmpVars, scVars, ingestVars, preVars, reinsVars, fnVars>>

GetBrowser ==
    /\ probe.pc = "get_browser"
    /\ \E start, launch \in Outcomes : probe' = _get_browser(probe, start, launch)
    /\ UNCHANGED <<cmpVars, scVars, ingestVars, preVars, reinsVars, fnVars>>

NewPage ==
    /\ probe.pc = "new_page"
    /\ \E outcome \in Outcomes : probe' = new_page(probe, outcome)
    /\ UNCHANGED <<cmpVars, scVars, ingestVars, preVars, reinsVars, fnVars>>

Goto ==
    LET \* the pages that are loaded: an article, a login page answered 403, a page
        \* that names a login without a form, a paywall in an overlay, a captcha
        \* in an iframe, a thin page
        LoadedPages ==
            { [NoPage EXCEPT !.status = 200, !.text_len = 500],
              [NoPage EXCEPT !.status = 403, !.content = {"login"}, !.forms = TRUE, !.text_len = 50],
              [NoPage EXCEPT !.status = 200, !.content = {"login"}, !.text_len = 500],
              [NoPage EXCEPT !.status = 200, !.content = {"paywall"}, !.text = {"paywall"},
                             !.overlay = {"paywall"}, !.text_len = 150],
              [NoPage EXCEPT !.status = 200, !.content = {"captcha", "iframe"}, !.iframes = 1,
                             !.text_len = 50],
              [NoPage EXCEPT !.status = 200, !.text_len = 50] }
    IN  /\ probe.pc = "goto"
        /\ \E outcome \in Outcomes \cup {"None"} : \E loaded \in LoadedPages :
               probe' = goto(probe, outcome, loaded)
        /\ UNCHANGED <<cmpVars, scVars, ingestVars, preVars, reinsVars, fnVars>>

Inspect ==
    /\ probe.pc = "inspect"
    /\ \E failing \in {"", "content", "query_selector_all"} :
       \E outcome \in Outcomes \ {"ok"} :
           probe' = inspect(probe, failing, outcome)
    /\ UNCHANGED <<cmpVars, scVars, ingestVars, preVars, reinsVars, fnVars>>

Finally ==
    /\ probe.pc = "finally"
    /\ \E outcome \in Outcomes : probe' = finally(probe, outcome)
    /\ UNCHANGED <<cmpVars, scVars, ingestVars, preVars, reinsVars, fnVars>>

\* close is called between two calls of detect_blockers
Close ==
    /\ probe.pc = "idle"
    /\ \E browser_close, playwright_stop \in Outcomes :
           probe' = close(probe, browser_close, playwright_stop)
    /\ UNCHANGED <<cmpVars, scVars, ingestVars, preVars, reinsVars, fnVars>>

NextProbe ==
    \/ DetectBlockers
    \/ GetBrowser
    \/ NewPage
    \/ Goto
    \/ Inspect
    \/ Finally
    \/ Close

SpecProbe == InitProbe /\ [][NextProbe]_vars

-----------------------------------------------------------------------------
(* Claims about the comparator *)

\* the unrounded scores of the two candidates of SpecCmp
RawScoreR == score_candidate(compute_signals(cmp_r.text, cmp_r.html), 0)
RawScoreTNoPenalty == score_candidate(compute_signals(cmp_t.text, cmp_t.html), 0)
RawScoreT == score_candidate(compute_signals(cmp_t.text, cmp_t.html),
                             BlockerPenalty(cmp_flags))
Decided == decision.raised = ""

\* at least one of the boolean blocker flags of the argument is true
AnyFlagTrue(flags) ==
    /\ Len(flags) > 0
    /\ \E k \in DOMAIN flags[1] \cap FlagNames : flags[1][k] = "True"

C8_ScoreBounds ==
    sc_score # -1 =>
        /\ 0 <= sc_score
        /\ sc_score <= Den
        /\ sc_penalty = 0 => sc_score * 10 <= 8 * Den

\* the floor decides: the penalty exceeds the weighted sum, which is positive
C8_Witness ==
    /\ sc_score = 0
    /\ sc_penalty > 0
    /\ score_candidate(sc_signals, 0) > 0
    /\ score_candidate(sc_signals, 0) < sc_penalty

C21_PenaltyFromFlags ==
    Decided =>
        /\ AnyFlagTrue(cmp_flags) <=> decision.blocker_penalty = 3 * (Den \div 10)
        /\ ~AnyFlagTrue(cmp_flags) <=> decision.blocker_penalty = 0

\* C29: the diagnostics of a decision agree with its choice: the
\* server-extracted side is chosen only if the reported score_diff (in
\* thousandths) is at least 0.05, and whenever the reported score_diff is at
\* least 0.05 the chosen side has the strictly higher reported score.
C29_DiagnosticsConsistent ==
    Decided =>
        /\ decision.chosen = "trafilatura" => decision.score_diff >= 50
        /\ decision.score_diff >= 50 =>
               IF decision.chosen = "trafilatura"
               THEN decision.score_trafilatura > decision.score_readability
               ELSE decision.score_readability > decision.score_trafilatura

\* C10: two calls with the same candidates and different blocker flags
\* report the same score (and signals) for the locally-captured side.
C10_ExtensionScoreIndependent ==
    [][ (Decided /\ decision'.raised = "")
          => /\ decision'.score_readability = decision.score_readability
             /\ decision'.signals_readability = decision.signals_readability
      ]_vars

\* a call with a true flag whose server-side score differs from the
\* unpenalised one, while the locally-captured side scores above 0
C10_Witness ==
    /\ Decided
    /\ AnyFlagTrue(cmp_flags)
    /\ decision.score_trafilatura # RoundDen3(RawScoreTNoPenalty)
    /\ decision.score_readability > 0
    /\ decision.score_readability = RoundDen3(RawScoreR)


-----------------------------------------------------------------------------
(* Claims about ingest_content *)

Range(f) == {f[i] : i \in DOMAIN f}

\* the request reached arbitration: the handler made its compare call
ReachedArbitration == calls.compare = 1

\* one of the four pre-arbitration short-circuits applies to the request
ShortCircuited ==
    \/ calls.fetch = 1 /\ ~fetch_result.success
    \/ calls.fetch = 1 /\ fetch_result.success /\ fetch_result.was_redirected
    \/ calls.extract = 1 /\ ~extraction.success
    \/ /\ calls.probe = 1
       /\ \E k \in {"login_required", "paywall", "captcha"} :
              Truthy(Get(blocker_flags, k))

\* C2: on the arbitration path the handler's call of the real
\* compare_and_decide does not fail, the decision's chosen value is
\* 'extension' or 'trafilatura', it carries score_extension,
\* score_trafilatura, signals_extension and signals_trafilatura, and the
\* handler returns a success response with that chosen value and scores.
C2_ArbitrationSucceeds ==
    (pc = "done" /\ ReachedArbitration /\ comparator_impl = "real") =>
        /\ comparison.raised = ""
        /\ comparison.chosen \in {"extension", "trafilatura"}
        /\ {"score_extension", "score_trafilatura", "signals_extension",
            "signals_trafilatura"} \subseteq DOMAIN comparison
        /\ response.kind = "success"
        /\ response.chosen = comparison.chosen
        /\ response.score_extension = comparison.score_extension
        /\ response.score_trafilatura = comparison.score_trafilatura

\* C3: when a short-circuit applies, compare_and_decide is never invoked and
\* the response is a success with chosen = 'extension', scores 1.0 / 0.0 and
\* overlap 0.0 on both sides.
C3_ShortCircuit ==
    ShortCircuited =>
        /\ calls.compare = 0
        /\ comparison = NoDecision
        /\ pc \in {"fetched", "extracted", "probed", "done"}
        /\ pc = "done" =>
             /\ response.kind = "success"
             /\ response.chosen = "extension"
             /\ response.score_extension = 1000
             /\ response.score_trafilatura = 0
             /\ response.signals.extension.overlap = 0
             /\ response.signals.trafilatura.overlap = 0

\* the probe ran on thin content and reported a captcha only; the handler
\* answered with the extension's content
C3_Witness ==
    /\ pc = "done"
    /\ calls.probe = 1
    /\ Truthy(Get(blocker_flags, "captcha"))
    /\ ~Truthy(Get(blocker_flags, "paywall"))
    /\ response.kind = "success"
    /\ response.chosen = "extension"
    /\ calls.compare = 0

CodeBlocksOf(html) == Range(html) \cap CodeTokens

\* C7: when the server-extracted side is the chosen winner, every code block
\* of the fetched raw page is in the html handed to convert_to_markdown.
C7_CodeReinjected ==
    ( /\ pc \in {"converted", "done"}
      /\ ReachedArbitration
      /\ comparison.raised = ""
      /\ comparison.chosen = "trafilatura" )
    => CodeBlocksOf(fetch_result.html) \subseteq Range(convert_html)

-----------------------------------------------------------------------------
(* Claims about the preprocessor *)

\* int(s) for a string of digits
RECURSIVE StrToInt(_)
StrToInt(s) ==
    IF s = <<>> THEN 0
    ELSE 10 * StrToInt(SubSeq(s, 1, Len(s) - 1))
             + (CHOOSE d \in 0..9 : DigitChars[d + 1] = s[Len(s)])

\* the placeholder tokens of a string from position i on, left to right: a
\* token is the prefix followed by its whole run of digits
RECURSIVE PlaceholdersFrom(_, _)
PlaceholdersFrom(s, i) ==
    LET j == find_from(s, i, _placeholder_prefix)
        n == RunLen(s, j + Len(_placeholder_prefix), DigitSet)
        stop == j + Len(_placeholder_prefix) + n
    IN  IF j = 0 THEN <<>>
        ELSE IF n = 0 THEN PlaceholdersFrom(s, stop)
        ELSE <<SubSeq(s, j, stop - 1)>> \o PlaceholdersFrom(s, stop)

\* the placeholder tokens of a returned html, in document order
TokensInHtml(tree) ==
    LET ds == descendants(tree, 1)
    IN  Concat([i \in 1..Len(ds) |-> PlaceholdersFrom(tree[ds[i]].text, 1)])

\* the parsed input of SpecPre and its pre elements, in document order
InputTree == BeautifulSoup(pre_html)
InputPres == find_all(InputTree, 1, "pre")

\* the input's code regions are N >= 1 non-empty <pre><code> blocks with
\* pairwise different content, bare or inside framework wrappers: no pre
\* lacks a code element, no pre is nested in a pre, every code element lies
\* in a pre, and every element a framework selector matches holds a pre
PreCodeDocument ==
    /\ Len(InputPres) >= 1
    /\ \A i \in 1..Len(InputPres) :
           /\ find(InputTree, InputPres[i], "code") # 0
           /\ find_parent(InputTree, InputPres[i], "pre") = 0
           /\ strip(_extract_text_content(InputTree, InputPres[i])) # <<>>
    /\ \A i, j \in 1..Len(InputPres) :
           i # j => _extract_text_content(InputTree, InputPres[i])
                        # _extract_text_content(InputTree, InputPres[j])
    /\ \A c \in Range(find_all(InputTree, 1, "code")) :
           find_parent(InputTree, c, "pre") # 0
    /\ \A k \in 1..Len(FRAMEWORK_PATTERNS) :
           \A e \in Range(select(InputTree, FRAMEWORK_PATTERNS[k])) :
               find(InputTree, e, "pre") # 0

\* C5: for a document of N >= 1 distinct non-empty <pre><code> blocks,
\* inside framework wrappers or not, extract_code_blocks returns exactly N
\* blocks, one per pre element in document order, with pairwise different
\* placeholder fields, and the returned html holds exactly those N
\* placeholder tokens, each once, in the order of the blocks.
C5_ExtractRoundTrip ==
    (pre_out.called /\ PreCodeDocument) =>
        /\ ~pre_out.raised
        /\ Len(pre_out.blocks) = Len(InputPres)
        /\ \A i \in 1..Len(pre_out.blocks) :
               pre_out.blocks[i].content
                   = _extract_text_content(InputTree, InputPres[i])
        /\ \A i, j \in 1..Len(pre_out.blocks) :
               i # j => pre_out.blocks[i].placeholder # pre_out.blocks[j].placeholder
        /\ TokensInHtml(pre_out.html)
               = [i \in 1..Len(pre_out.blocks) |-> pre_out.blocks[i].placeholder]

\* C20: the token written into the returned html in place of the element of
\* a block is PLACEHOLDER_<i>, i the position of the block in the returned
\* list counted from 0 across both passes: the placeholder field of every
\* block is that token, it is in the html, and no token is in the html twice.
C20_PlaceholderTokens ==
    (pre_out.called /\ ~pre_out.raised) =>
        LET tokens == TokensInHtml(pre_out.html)
        IN  /\ \A i \in 1..Len(pre_out.blocks) :
                   /\ pre_out.blocks[i].placeholder = PlaceholderToken(i - 1)
                   /\ pre_out.blocks[i].placeholder \in Range(tokens)
            /\ \A a, b \in 1..Len(tokens) : a # b => tokens[a] # tokens[b]

\* the element is part of the document: its chain of parents ends at the
\* BeautifulSoup object
RECURSIVE Attached(_, _)
Attached(tree, n) ==
    n = 1 \/ (tree[n].parent # 0 /\ Attached(tree, tree[n].parent))

\* the inline code of the input: the code elements outside every pre whose
\* content has no newline and at most 60 characters
InlineCodes ==
    { c \in Range(find_all(InputTree, 1, "code")) :
        /\ find_parent(InputTree, c, "pre") = 0
        /\ ~Contains(_extract_text_content(InputTree, c), <<"\n">>)
        /\ Len(_extract_text_content(InputTree, c)) <= 60 }

\* C22: an inline code element, whatever its class, is still in the returned
\* html after extract_code_blocks, with the attributes and the children it
\* had, and no block holds its content.
C22_InlineCodeUntouched ==
    (pre_out.called /\ ~pre_out.raised) =>
        \A c \in InlineCodes :
            /\ Attached(pre_out.html, c)
            /\ pre_out.html[c] = InputTree[c]
            /\ \A k \in Range(InputTree[c].kids) : pre_out.html[k] = InputTree[k]
            /\ \A i \in 1..Len(pre_out.blocks) :
                   pre_out.blocks[i].content # _extract_text_content(InputTree, c)

\* the pre and code elements of the input whose trimmed content is empty
EmptyElements ==
    { e \in Range(find_all(InputTree, 1, "pre")) \cup Range(find_all(InputTree, 1, "code")) :
        strip(_extract_text_content(InputTree, e)) = <<>> }

\* C23: every block returned by extract_code_blocks has content that is not
\* empty after trimming, and a pre or code element whose trimmed content is
\* empty is still in the returned html.
C23_NoEmptyBlocks ==
    (pre_out.called /\ ~pre_out.raised) =>
        /\ \A i \in 1..Len(pre_out.blocks) : strip(pre_out.blocks[i].content) # <<>>
        /\ \A e \in EmptyElements : Attached(pre_out.html, e)

\* C24: extract_code_blocks returns as many blocks as the returned html holds
\* placeholder tokens, at most one block of the pre loop for each pre that is
\* not nested in another pre, and no block whose content is a placeholder
\* token.
C24_OneBlockPerRegion ==
    (pre_out.called /\ ~pre_out.raised) =>
        /\ Len(pre_out.blocks) = Len(TokensInHtml(pre_out.html))
        /\ Cardinality({ i \in 1..Len(pre_out.blocks) :
                             pre_out.blocks[i].metadata.tag \in {"pre>code", "pre"} })
               <= Cardinality({ e \in Range(InputPres) : find_parent(InputTree, e, "pre") = 0 })
        /\ \A i \in 1..Len(pre_out.blocks) :
               PlaceholdersFrom(pre_out.blocks[i].content, 1) # <<pre_out.blocks[i].content>>

\* a line without its leading run of digits
RECURSIVE DropDigits(_)
DropDigits(line) ==
    IF line # <<>> /\ Head(line) \in DigitSet THEN DropDigits(Tail(line)) ELSE line

\* the content in which every line lost its leading run of digits
Unnumbered(content) ==
    LET lines == split(content, "\n")
    IN  join(<<"\n">>, [i \in 1..Len(lines) |-> DropDigits(lines[i])])

\* at least 70% of the non-blank lines of the content start with a digit,
\* and there is a non-blank line
MostlyNumbered(content) ==
    LET lines == split(content, "\n")
        nonblank == { i \in 1..Len(lines) : strip(lines[i]) # <<>> }
        numbered == { i \in nonblank : Head(lines[i]) \in DigitSet }
    IN  nonblank # {} /\ 10 * Cardinality(numbered) >= 7 * Cardinality(nonblank)

\* the text that a block is given in the html and in its fence
Emitted(block) ==
    IF block.line_numbers THEN Unnumbered(block.content) ELSE block.content

\* the text of the code element of the i-th pre that SpecInject's call added
InjectedText(i) ==
    LET out == BeautifulSoup(fn_result.value)
        body == IF find(out, 1, "body") # 0 THEN find(out, 1, "body") ELSE 1
        pre == out[body].kids[Len(out[body].kids) - Len(fn_args.blocks) + i]
        code == out[pre].kids[1]
    IN  out[out[code].kids[1]].text

RECURSIVE HasBody(_)
HasBody(terms) ==
    \E i \in 1..Len(terms) : terms[i].tag = "body" \/ HasBody(terms[i].kids)

\* the html with the elements appended to the children of its first body
RECURSIVE IntoBody(_, _)
IntoBody(terms, new) ==
    LET i == CHOOSE k \in 1..Len(terms) :
                 /\ terms[k].tag = "body" \/ HasBody(terms[k].kids)
                 /\ \A j \in 1..(k - 1) : terms[j].tag # "body" /\ ~HasBody(terms[j].kids)
    IN  [terms EXCEPT ![i] = IF @.tag = "body"
                             THEN [@ EXCEPT !.kids = @ \o new]
                             ELSE [@ EXCEPT !.kids = IntoBody(@, new)]]

\* the pre element of a block
PreOf(block) ==
    Elem("pre", <<>>,
         <<Elem("code",
                IF block.language \notin {<<>>, Str.text}
                THEN <<<<"l", "a", "n", "g", "u", "a", "g", "e", "-">> \o block.language>> ELSE <<>>,
                <<TextNode(Emitted(block))>>)>>)

RECURSIVE SubstituteAll(_, _, _)
SubstituteAll(s, i, blocks) ==
    LET j == find_from(s, i, _placeholder_prefix)
        n == RunLen(s, j + Len(_placeholder_prefix), DigitSet)
        stop == j + Len(_placeholder_prefix) + n
        index == StrToInt(SubSeq(s, j + Len(_placeholder_prefix), stop - 1))
    IN  IF j = 0 THEN SubSeq(s, i, Len(s))
        ELSE IF n > 0 /\ index < Len(blocks)
        THEN SubSeq(s, i, j - 1) \o to_markdown(blocks[index + 1])
                 \o SubstituteAll(s, stop, blocks)
        ELSE SubSeq(s, i, stop - 1) \o SubstituteAll(s, stop, blocks)

\* C6: for every list of N >= 1 blocks, also for N > 10, and a markdown that
\* holds each of PLACEHOLDER_0 .. PLACEHOLDER_<N-1>, reinsert_code_blocks
\* returns the markdown with the fenced rendering of block i at every
\* position of placeholder i, and no text PLACEHOLDER is left in it.
C6_ReinsertRoundTrip ==
    ( /\ rs_out.called
      /\ \A i \in 0..(Len(rs_blocks) - 1) :
             PlaceholderToken(i) \in Range(PlaceholdersFrom(rs_markdown, 1)) )
    => /\ rs_out.result = SubstituteAll(rs_markdown, 1, rs_blocks)
       /\ ~Contains(rs_out.result, <<"P", "L", "A", "C", "E", "H", "O", "L", "D", "E", "R">>)

\* C14: when the placeholder of a block does not occur in the markdown,
\* reinsert_code_blocks still returns: the block contributes nothing, the
\* text is otherwise unchanged, and every block whose placeholder does occur
\* is substituted at its placeholder.
C14_MissingPlaceholder ==
    ( /\ rs_out.called
      /\ \E i \in 0..(Len(rs_blocks) - 1) :
             PlaceholderToken(i) \notin Range(PlaceholdersFrom(rs_markdown, 1)) )
    => rs_out.result = SubstituteAll(rs_markdown, 1, rs_blocks)

\* C28: the rendering that reinsert_code_blocks puts in for a block is not
\* touched by the substitution for a later block: for a list of at most 10
\* blocks (no token is the beginning of another) the rendering of every
\* block whose placeholder is in the markdown is in the result, also when
\* the code of the block holds the placeholder token of a later block.
C28_ConsumedOnce ==
    (rs_out.called /\ Len(rs_blocks) <= 10) =>
        \A i \in 1..Len(rs_blocks) :
            PlaceholderToken(i - 1) \in Range(PlaceholdersFrom(rs_markdown, 1))
                => Contains(rs_out.result, to_markdown(rs_blocks[i]))

-----------------------------------------------------------------------------
(* Claims about semantic_overlap *)

\* C11: semantic_overlap(t, t) is exactly 1 for every text t of at least 3
\* words, and semantic_overlap(t, u) is exactly 0 whenever t or u has fewer
\* than 3 words, the empty text included.
C11_OverlapIdentity ==
    fn_result.called =>
        /\ (fn_args.text_a = fn_args.text_b /\ WordCount(fn_args.text_a) >= 3)
               => fn_result.value = [n |-> 1, d |-> 1]
        /\ (WordCount(fn_args.text_a) < 3 \/ WordCount(fn_args.text_b) < 3)
               => fn_result.value = [n |-> 0, d |-> 1]

C11_Witness ==
    /\ fn_result.called
    /\ fn_args.text_a = fn_args.text_b
    /\ WordCount(fn_args.text_a) = MaxWords
    /\ fn_result.value = [n |-> 1, d |-> 1]

\* the texts that differ from a text only in the case of letters
CaseCopies(text) ==
    { u \in OverlapTexts : /\ Len(u) = Len(text)
                           /\ \A i \in 1..Len(u) : Lower(u[i].w) = Lower(text[i].w) }

\* C12: semantic_overlap(a, b) equals semantic_overlap(b, a), lies between
\* 0 and 1, and does not change when a or b is replaced by a copy that
\* differs only in letter case.
C12_OverlapSymmetric ==
    fn_result.called =>
        /\ fn_result.value = semantic_overlap(fn_args.text_b, fn_args.text_a)
        /\ 0 <= fn_result.value.n
        /\ fn_result.value.n <= fn_result.value.d
        /\ \A a \in CaseCopies(fn_args.text_a) :
               semantic_overlap(a, fn_args.text_b) = fn_result.value
        /\ \A b \in CaseCopies(fn_args.text_b) :
               semantic_overlap(fn_args.text_a, b) = fn_result.value

\* two texts of different length that share some trigrams, not all, the
\* first with a copy in another spelling
C12_Witness ==
    /\ fn_result.called
    /\ fn_args.text_a # fn_args.text_b
    /\ WordCount(fn_args.text_a) < WordCount(fn_args.text_b)
    /\ Cardinality(CaseCopies(fn_args.text_a)) > 1
    /\ fn_result.value.n > 0
    /\ fn_result.value.n < fn_result.value.d

-----------------------------------------------------------------------------
(* Claims about fetch_url *)

\* the pair the claim compares: the host in lower case without one leading
\* www., and the path without its trailing slash, the root path kept
ComparedPair(u) ==
    LET host == str_lower(u.host)
        path == IF u.path = <<>> THEN <<"/">> ELSE u.path
    IN  << IF Len(host) >= 4 /\ SubSeq(host, 1, 4) = <<"w", "w", "w", ".">>
           THEN SubSeq(host, 5, Len(host)) ELSE host,
           IF path # <<"/">> /\ path[Len(path)] = "/"
           THEN SubSeq(path, 1, Len(path) - 1) ELSE path >>

\* C13: a successful fetch_url reports was_redirected exactly when the
\* requested url and the final url differ in host (lower case, leading
\* www. removed) or path (trailing slash removed, root kept).  A final url
\* that differs only in scheme, www. prefix, trailing slash or query is not
\* reported; a change of domain, of a subdomain other than www, or of the
\* path is.
C13_RedirectSignificance ==
    (fn_result.called /\ fn_result.value.success) =>
        LET u == fn_args.url
            f == fn_args.final
            same_page == /\ str_lower(u.site) = str_lower(f.site)
                         /\ u.page = f.page
        IN  /\ fn_result.value.was_redirected
                   <=> ComparedPair(UrlOf(u)) # ComparedPair(UrlOf(f))
            /\ same_page => ~fn_result.value.was_redirected
            /\ ~same_page => fn_result.value.was_redirected

\* http://www.example.com/article fetched as https://example.com/article/
C13_Witness ==
    /\ fn_result.called
    /\ fn_result.value.success
    /\ ~fn_result.value.was_redirected
    /\ fn_args.url.scheme # fn_args.final.scheme
    /\ fn_args.url.www # fn_args.final.www
    /\ fn_args.url.slash # fn_args.final.slash
    /\ fn_args.url.query # fn_args.final.query
    /\ fn_args.url.page # <<>>

-----------------------------------------------------------------------------
(* Claims about CodeBlock.to_markdown *)

\* a line without the whitespace around it and without its leading prompt
\* characters
Unprompted(line) == strip(lstrip(strip(line), {"$"}))

\* C15: a terminal block is fenced as bash whatever its language is; every
\* non-blank line of its content, also a line with whitespace before its
\* prompt, is rendered as "$ " and the line without its leading prompt, so
\* that no rendered line has two prompts; blank lines are left out.
C15_TerminalPrompt ==
    (fn_result.called /\ fn_args.block.is_terminal) =>
        LET lines == SelectSeq(fn_args.lines, LAMBDA line : strip(line) # <<>>)
        IN  fn_result.value
                = fence \o Str.bash \o <<"\n">>
                    \o join(<<"\n">>, [i \in 1..Len(lines) |->
                                           <<"$", " ">> \o Unprompted(lines[i])])
                    \o <<"\n">> \o fence

-----------------------------------------------------------------------------
(* Claims about fix_fragmented_code_blocks *)

\* the code of numbered lines: the lines without their numbers
FragmentCode(lines) ==
    join(<<"\n">>, [i \in 1..Len(lines) |-> lines[i].code])

\* the text holds one fenced python block whose content is the code, and no
\* backtick outside the two fences
OnePythonBlock(text, code) ==
    /\ Contains(text, fence \o Str.python \o <<"\n">> \o code \o <<"\n">> \o fence)
    /\ CountTokens(text, {BACKTICK}) = 2 * Len(fence)

\* the numbered lines are python: one of them is an import
HasImport(lines) ==
    \E i \in 1..Len(lines) : StartsAt(lines[i].code, 1, <<"i", "m", "p", "o", "r", "t", " ">>)

C27_OnlyNumberedSpans ==
    fn_result.called =>
        /\ fn_args.shape \in {"inline", "between", "fenced"}
               => fn_result.value = fn_args.markdown
        /\ StartsAt(fn_result.value, 1, fn_args.before)
        /\ StartsAt(fn_result.value, Len(fn_result.value) - Len(fn_args.after) + 1,
                    fn_args.after)

-----------------------------------------------------------------------------
(* Claims about the steps after the conversion *)

\* C30: normalize_links followed by clean_markdown leaves every fenced block
\* of the markdown as it is, character for character: the fenced blocks of
\* the text are in the result.
C30_FencesUnchanged ==
    fn_result.called =>
        \A i \in 1..Len(fn_args.parts) :
            fn_args.parts[i].kind = "fence"
                => Contains(fn_result.value, fn_args.parts[i].text)

-----------------------------------------------------------------------------
(* Claims about convert_to_markdown *)

\* the conversion of the call fails: there is no html, or a step raises
ConversionFails ==
    \/ fn_args.html.type = "NoneType"
    \/ fn_args.html.value = <<>>
    \/ fn_args.lib.raises # ""

\* the text of the exception of a failed conversion
ErrorMessage ==
    IF fn_args.html.type = "NoneType" \/ fn_args.html.value = <<>>
    THEN <<"N", "o", " ", "H", "T", "M", "L", " ", "c", "o", "n", "t", "e", "n", "t", " ", "p", "r", "o", "v", "i", "d", "e", "d">>
    ELSE fn_args.lib.message

\* the text ends with a fenced block that holds nothing, or a start of the
\* input of at most n characters and an ellipsis
EndsWithPreview(text, input, n) ==
    \E k \in 0..Min(n, Len(input)) :
    \E preview \in { <<>>, SubSeq(input, 1, k) \o <<".", ".", ".">> } :
        LET block == <<"\n">> \o fence \o <<"\n">> \o preview \o <<"\n">> \o fence \o <<"\n">>
        IN  /\ Len(text) >= Len(block)
            /\ SubSeq(text, Len(text) - Len(block) + 1, Len(text)) = block

\* C17: convert_to_markdown never raises; when there is no html (None or
\* empty) or a step of the conversion fails, it returns a fallback that holds
\* the title, the source url, the error message and a fenced preview of at
\* most the first 1000 characters of the input (followed by an ellipsis).
C17_FallbackOnFailure ==
    fn_result.called =>
        /\ ~fn_result.value.raised
        /\ ConversionFails =>
            LET markdown == fn_result.value.markdown
                input == IF fn_args.html.type = "str" THEN fn_args.html.value ELSE <<>>
            IN  /\ StartsAt(markdown, 1, <<"#", " ">> \o fn_args.title \o <<"\n">>)
                /\ Contains(markdown, <<"*", "*", "S", "o", "u", "r", "c", "e", "*", "*", ":", " ">> \o fn_args.url)
                /\ Contains(markdown, <<"*", "*", "E", "r", "r", "o", "r", "*", "*", ":", " ", "F", "a", "i", "l", "e", "d", " ", "t", "o", " ", "c", "o", "n", "v", "e", "r", "t", " ", "t", "o", " ", "M", "a", "r", "k", "d", "o", "w", "n", ":", " ">>
                                          \o ErrorMessage \o <<"\n">>)
                /\ EndsWithPreview(markdown, input, 1000)

\* the conversion of an html longer than the preview failed in markdownify:
\* the fallback holds nothing of the input after its first 1000 characters
C17_Witness ==
    /\ fn_result.called
    /\ fn_args.html.type = "str"
    /\ Len(fn_args.html.value) > 1000
    /\ fn_args.lib.raises = "md"
    /\ Contains(fn_result.value.markdown, <<"*", "*", "E", "r", "r", "o", "r", "*", "*">>)
    /\ ~Contains(fn_result.value.markdown, <<"z">>)

-----------------------------------------------------------------------------
(* Claims about the classifiers of markup *)

\* the alias table of the specification
AliasOf(lang) ==
    CASE lang = <<"j", "s">> -> Str.javascript
      [] lang = <<"p", "y">> -> Str.python
      [] lang = <<"t", "s">> -> Str.typescript
      [] lang \in { <<"s", "h">>, <<"s", "h", "e", "l", "l">>, <<"z", "s", "h">>, <<"f", "i", "s", "h">> } -> Str.bash
      [] lang = <<"y", "m", "l">> -> Str.yaml
      [] lang = <<"g", "o", "l", "a", "n", "g">> -> <<"g", "o">>
      [] lang = <<"r", "s">> -> <<"r", "u", "s", "t">>
      [] lang = <<"r", "b">> -> <<"r", "u", "b", "y">>
      [] OTHER -> lang

\* C18: for a class that is a known prefix and a suffix, both classifiers
\* of markup return the same tag, the lower-cased suffix mapped through the
\* one alias table.
C18_ClassifiersAgree ==
    fn_result.called =>
        /\ fn_result.value.tag = fn_result.value.classes
        /\ fn_result.value.tag = AliasOf(str_lower(fn_args.suffix))

-----------------------------------------------------------------------------
(* Claims about PlaywrightProbeTool *)

\* C19: after close ended, by a return or by an exception of the shutdown
\* of the browser or of playwright, _browser and _playwright are None; the
\* browser detect_blockers uses is never one that close has closed; and when
\* detect_blockers has returned, on any path, the page it opened is closed.
C19_ProbeCleanup ==
    /\ (probe.pc = "idle" /\ probe.last.op = "close") =>
           probe._browser = 0 /\ probe._playwright = 0
    /\ probe._browser \notin probe.closed
    /\ probe.pc \in {"new_page", "goto", "inspect"} => probe.browser \notin probe.closed
    /\ (/\ probe.pc = "idle"
        /\ probe.last.op = "detect_blockers"
        /\ ~probe.last.raised) =>
           probe.last.page \notin probe.pages

\* detect_blockers returned after it opened a page in a second browser, the
\* shutdown of the first having raised in close
C19_Witness ==
    /\ probe.pc = "idle"
    /\ probe.last.op = "detect_blockers"
    /\ ~probe.last.raised
    /\ probe.last.page # 0
    /\ probe._browser = 2
    /\ probe.closed = {1}
    /\ probe.stopped = {}

====
